---- MODULE Spec2Model ----
(***************************************************************************)
(* Remimazolam induction simulator: the LSODA integrator                   *)
(* (scripts/utils/lsoda.js), the PK parameter calculator and the two       *)
(* simulation engines with their UI controllers (scripts/main.js,          *)
(* scripts/enhanced-main.js).                                              *)
(*                                                                         *)
(* Numbers.  JavaScript doubles are modelled in fixed point:               *)
(*   time            : TU units per 1.0                                    *)
(*   solution values : VU units per 1.0                                    *)
(*   tolerances      : TolScale units per 1.0                              *)
(*   norms, factors  : thousandths ("milli")                               *)
(* Products and quotients truncate toward zero.  A tolerance below the     *)
(* resolution is stored as 0 and treated as a positive infinitesimal (the  *)
(* code never lets a tolerance be 0: options.x || default).                *)
(***************************************************************************)
EXTENDS Integers, Sequences, FiniteSets, TLC

VARIABLES
    lsodaSolver,   \* the LSODA object (fields of class LSODA), or NullObj
    call,          \* the active solve()/step()/correct() frame: locals and position
    result,        \* what the last solve() returned to its caller
    pkCall,        \* a call of PKCalculator: script, patient, page environment, position
    pkResult,      \* what that call returned, the return statement calculateKe0 took
                   \* and what it wrote to the console
    page,          \* the loaded page: its script, the flags and the globals it defines
    clock,         \* new Date(), in milliseconds since the page was loaded
    ui,            \* the controller's Patient object and the document's elements
    engine,        \* the fields of the controller's simulator
    run            \* history of the current run: the covariates start() was given,
                   \* the path of the last tick, the state before it, its progress

lsodaVars == <<lsodaSolver, call, result>>
pkVars == <<pkCall, pkResult>>
appVars == <<page, clock, ui, engine, run>>
vars == <<lsodaSolver, call, result, pkCall, pkResult, page, clock, ui, engine, run>>

----------------------------------------------------------------------------
(* Resolution of the fixed-point model.  One unit of time is 1/TU: with the  *)
(* engine's interval of 1/60 and solve's initial step of 1/100 of the       *)
(* interval, nine halvings of the initial step are exact.                   *)
TU == 60 * 100 * 512
VU == 10 * 1000 * 1000
TolScale == 100 * 1000 * 1000
Milli == 10 * 100
Huge == 10 * Milli          \* norms saturate at 10.0

NullObj == [null |-> TRUE]

Abs(x) == IF x < 0 THEN -x ELSE x
Sign(x) == IF x > 0 THEN 1 ELSE IF x < 0 THEN -1 ELSE 0
Min2(a, b) == IF a <= b THEN a ELSE b
Max2(a, b) == IF a >= b THEN a ELSE b
\* quotient truncated toward zero (b > 0)
TDiv(a, b) == IF a >= 0 THEN a \div b ELSE -((-a) \div b)

RECURSIVE MulDivRec(_, _, _)
\* <<q, r>> with a * b = q * c + r and 0 <= r < c, for a, b >= 0 and 0 < c < 2^29,
\* by expansion of b to the base 2^30 \div c: no intermediate value exceeds
\* 2^31 or the quotient
MulDivRec(a, b, c) ==
    IF b = 0 THEN <<0, 0>>
    ELSE LET base == 1073741823 \div c
             p == MulDivRec(a, b \div base, c)
             r1 == base * p[2] + (b % base) * (a % c)
         IN <<base * p[1] + (b % base) * (a \div c) + r1 \div c, r1 % c>>
\* a * b / c truncated, a, b >= 0, c > 0: directly where the product, or the
\* product of b and the remainder of a, stays below 2^31
MulDiv(a, b, c) ==
    IF a = 0 \/ b = 0 THEN 0
    ELSE IF a <= 2147483647 \div b THEN (a * b) \div c
    ELSE IF (a % c = 0 \/ b <= 2147483647 \div (a % c)) /\ (a < c \/ b <= 2147483647 \div (a \div c))
         THEN (a \div c) * b + ((a % c) * b) \div c
    ELSE MulDivRec(a, b, c)[1]
\* signed a * b / c truncated toward zero, c > 0
SMulDiv(a, b, c) == Sign(a) * Sign(b) * MulDiv(Abs(a), Abs(b), c)

RECURSIVE SqrtSearch(_, _, _)
SqrtSearch(x, lo, hi) ==
    IF lo >= hi THEN lo
    ELSE LET mid == (lo + hi + 1) \div 2
         IN IF mid * mid <= x THEN SqrtSearch(x, mid, hi) ELSE SqrtSearch(x, lo, mid - 1)
\* floor(sqrt(x)) for 0 <= x < 2^31
ISqrt(x) == SqrtSearch(x, 0, 46340)

RECURSIVE SumSeq(_)
SumSeq(s) == IF s = <<>> THEN 0 ELSE Head(s) + SumSeq(Tail(s))

RECURSIVE PowCap(_, _, _)
\* min(cap + 1, r^k), computed without exceeding cap * r
PowCap(r, k, cap) ==
    IF k = 0 THEN 1
    ELSE LET p == PowCap(r, k - 1, cap)
         IN IF p > cap THEN p ELSE IF r = 0 THEN 0 ELSE IF p > cap \div r THEN cap + 1 ELSE p * r

RECURSIVE RootSearch(_, _, _, _)
RootSearch(x, k, lo, hi) ==
    IF lo >= hi THEN lo
    ELSE LET mid == (lo + hi + 1) \div 2
         IN IF PowCap(mid, k, x) <= x THEN RootSearch(x, k, mid, hi)
            ELSE RootSearch(x, k, lo, mid - 1)

\* Math.pow(x, 1/k) for x in milli with 0 <= x <= 4.0, result in milli
PowInv(xMilli, k) ==
    IF k = 1 THEN xMilli
    ELSE IF k = 2 THEN ISqrt(xMilli * Milli)
    ELSE \* r^k = x * 1000^(k-1); only k <= 3 stays below 2^31
         RootSearch(xMilli * Milli * Milli, k, 0, 2 * Milli)

----------------------------------------------------------------------------
(* Numbers of the PK calculators: integers in millionths, with Infinity,    *)
(* -Infinity and NaN as three values outside the finite range.  Finite      *)
(* results of the operations below stay under 2^30 / 10^6 (about 1073) for  *)
(* the inputs of this model; Math.exp saturates to Infinity above it.       *)

Kilo == 10 * 100
One == Kilo * Kilo
PosInf == 1024 * 1024 * 1024
NegInf == -PosInf
NaN == PosInf + 1

IsFinite(x) == x > NegInf /\ x < PosInf
\* null of JavaScript where a number is expected
JSNull == NaN + 1
\* x > 0 and x < 0 of JavaScript (false for NaN; null > 0 is false)
Gt0(x) == x # NaN /\ x # JSNull /\ x > 0
Lt0(x) == x # NaN /\ x < 0

\* a finite result beyond the range is represented by the infinity of its sign
Saturate(x) == IF x >= PosInf THEN PosInf ELSE IF x <= NegInf THEN NegInf ELSE x

\* a + b
FAdd(a, b) ==
    IF a = NaN \/ b = NaN THEN NaN
    ELSE IF ~IsFinite(a) THEN (IF ~IsFinite(b) /\ b # a THEN NaN ELSE a)
    ELSE IF ~IsFinite(b) THEN b
    ELSE Saturate(a + b)

\* -a
FNeg(a) == IF a = NaN THEN NaN ELSE -a

\* a * b / One truncated, for 0 <= a, b < 2^30 and a result below 2^30
MulOne(a, b) ==
    LET a1 == a \div Kilo
        a0 == a % Kilo
        b1 == b \div Kilo
        b0 == b % Kilo
    IN a1 * b1 + ((a1 * b0 + a0 * b1) + (a0 * b0) \div Kilo) \div Kilo

\* a * b
FMul(a, b) ==
    IF a = NaN \/ b = NaN THEN NaN
    ELSE IF ~IsFinite(a) \/ ~IsFinite(b)
         THEN (IF a = 0 \/ b = 0 THEN NaN ELSE Sign(a) * Sign(b) * PosInf)
    ELSE IF Abs(b) >= Kilo /\ Abs(a) \div Kilo >= PosInf \div (Abs(b) \div Kilo) - Kilo
         THEN Sign(a) * Sign(b) * PosInf
    ELSE Sign(a) * Sign(b) * MulOne(Abs(a), Abs(b))

\* a * One / b truncated, for a >= 0, b > 0 and a result below 2^31: long division
\* with three digits to the base 1000 where the remainders allow it
DivOne(a, b) ==
    IF b <= 2147483647 \div Kilo
    THEN LET r1 == (a % b) * Kilo
             r2 == (r1 % b) * Kilo
         IN (a \div b) * One + (r1 \div b) * Kilo + r2 \div b
    ELSE IF b <= 2147483647 \div 100
    THEN LET r1 == (a % b) * 100
             r2 == (r1 % b) * 100
             r3 == (r2 % b) * 100
         IN (a \div b) * One + (r1 \div b) * 10000 + (r2 \div b) * 100 + r3 \div b
    ELSE MulDiv(a, One, b)

\* a / b (the model has no negative zero: x / 0 takes the sign of x)
FDiv(a, b) ==
    IF a = NaN \/ b = NaN THEN NaN
    ELSE IF ~IsFinite(a) THEN (IF ~IsFinite(b) THEN NaN
                               ELSE Sign(a) * (IF b < 0 THEN -1 ELSE 1) * PosInf)
    ELSE IF ~IsFinite(b) THEN 0
    ELSE IF b = 0 THEN (IF a = 0 THEN NaN ELSE Sign(a) * PosInf)
    ELSE IF Abs(b) < One /\ Abs(a) >= MulOne(PosInf, Abs(b))
         THEN Sign(a) * Sign(b) * PosInf
    ELSE Sign(a) * Sign(b) * DivOne(Abs(a), Abs(b))

\* an integer or a decimal literal n / d as a number
Num(n, d) == SMulDiv(n, One, d)

RECURSIVE ExpTerms(_, _, _, _)
\* sum of the Taylor series of exp(r), 0 <= r <= 1
ExpTerms(r, i, term, acc) ==
    IF i > 12 \/ term = 0 THEN acc
    ELSE LET t == MulOne(term, r) \div i IN ExpTerms(r, i + 1, t, acc + t)
ExpFrac(r) == ExpTerms(r, 1, One, One)
EConst == ExpTerms(One, 1, One, One)
EInverse == MulDiv(One, One, EConst)

RECURSIVE ScaleE(_, _)
\* v * e^k
ScaleE(v, k) ==
    IF k = 0 THEN v
    ELSE IF k > 0 THEN (IF v >= PosInf \div 3 THEN PosInf
                        ELSE ScaleE(MulOne(v, EConst), k - 1))
    ELSE IF v = 0 THEN 0
    ELSE ScaleE(MulOne(v, EInverse), k + 1)

\* Math.exp(x), x finite
ExpFinite(x) ==
    LET k == IF x >= 0 THEN x \div One ELSE -((-x + One - 1) \div One)
    IN ScaleE(ExpFrac(x - k * One), k)

\* Math.exp(x)
FExp(x) ==
    IF x = NaN THEN NaN
    ELSE IF x >= 7 * One THEN PosInf
    ELSE IF x <= -20 * One THEN 0
    ELSE ExpFinite(x)

RECURSIVE LnSearch(_, _, _)
LnSearch(x, lo, hi) ==
    IF lo >= hi THEN lo
    ELSE LET mid == lo + (hi - lo + 1) \div 2
         IN IF ExpFinite(mid) <= x THEN LnSearch(x, mid, hi) ELSE LnSearch(x, lo, mid - 1)
\* Math.log(x) for finite x > 0
Ln(x) == LnSearch(x, -14 * One, 7 * One)

\* Math.pow(x, p) for a finite exponent p that is not an integer
FPow(x, p) ==
    IF x = NaN THEN NaN
    ELSE IF x < 0 THEN NaN
    ELSE IF x = 0 THEN (IF p > 0 THEN 0 ELSE PosInf)
    ELSE IF x = PosInf THEN (IF p > 0 THEN PosInf ELSE 0)
    ELSE LET l == Ln(x) IN ExpFinite(Sign(l) * Sign(p) * MulOne(Abs(l), Abs(p)))

\* Math.pow(x, 2)
FSquare(x) == FMul(x, x)

\* Math.max(a, b), Math.min(a, b)
FMax(a, b) == IF a = NaN \/ b = NaN THEN NaN ELSE IF a >= b THEN a ELSE b
FMin(a, b) == IF a = NaN \/ b = NaN THEN NaN ELSE IF a <= b THEN a ELSE b

\* a <= b of JavaScript (false for NaN)
FLe(a, b) == a # NaN /\ b # NaN /\ a <= b

\* x * n / d for a number x and integers n and d > 0: the product of x with a
\* constant or a step size that is an exact ratio
FRat(x, n, d) ==
    IF x = NaN THEN NaN
    ELSE IF ~IsFinite(x) THEN (IF n = 0 THEN NaN ELSE Sign(x) * Sign(n) * PosInf)
    ELSE IF Abs(n) > d /\ Abs(x) >= PosInf \div ((Abs(n) \div d) + 1)
         THEN Sign(x) * Sign(n) * PosInf
    ELSE Saturate(SMulDiv(x, n, d))

----------------------------------------------------------------------------
(* The right-hand side of the engines: the three-compartment model with an  *)
(* effect site.  y = <<a1, a2, a3, ce>>; params holds pkParams, the Patient  *)
(* object and continuousDose.                                               *)

\* (continuousDose * patient.weight) / 60.0
continuousRate(continuousDose, patient) ==
    FDiv(FMul(continuousDose, patient.weight), Num(60, 1))

\* odeSystem(t, y, params) of updateSimulation (enhanced-main.js) and odeSystem(t, y)
\* of updateSimulationLSODA (main.js), which reads the same three values from the
\* engine.  Neither uses t.
odeSystem(t, y, params) ==
    LET p == params.pkParams
        a1 == y[1]
        a2 == y[2]
        a3 == y[3]
        ce == y[4]
    IN << \* da1_dt = continuousRate - k10 * a1 - k12 * a1 + k21 * a2 - k13 * a1 + k31 * a3
          FAdd(FAdd(FAdd(FAdd(FAdd(continuousRate(params.continuousDose, params.patient),
                                   FNeg(FMul(p.k10, a1))),
                              FNeg(FMul(p.k12, a1))),
                         FMul(p.k21, a2)),
                    FNeg(FMul(p.k13, a1))),
               FMul(p.k31, a3)),
          \* da2_dt = k12 * a1 - k21 * a2
          FAdd(FMul(p.k12, a1), FNeg(FMul(p.k21, a2))),
          \* da3_dt = k13 * a1 - k31 * a3
          FAdd(FMul(p.k13, a1), FNeg(FMul(p.k31, a3))),
          \* dce_dt = ke0 * (plasmaConc - ce) with plasmaConc = a1 / v1
          FMul(p.ke0, FAdd(FDiv(a1, p.v1), FNeg(ce))) >>

\* a solution value of the LSODA model (VU units) as a number, and back
FromVU(v) == TDiv(v, VU \div One)
ToVU(x) == x * (VU \div One)

----------------------------------------------------------------------------
(* class LSODA (scripts/utils/lsoda.js)                                    *)

ADAMS == 1
BDF == 2
maxorder_adams == 12
maxorder_bdf == 5
DefaultMaxstep == 500
PKMaxstep == 1000
\* tolerances in TolScale units: 1e-6, 1e-8; 1e-12 is below the resolution
Rtol1e6 == TolScale \div 1000000
Rtol1e8 == TolScale \div 100000000
Atol1e12 == (TolScale \div (1000000 * 1000)) \div 1000

\* a vector of n zeros: Array(n).fill(0)
Zeros(n) == [i \in 1..n |-> 0]

\* elco[meth][q]: the coefficient rows of initializeCoefficients, in milli.
\* Rows exist for q = 0..5 only; any other row is undefined in the code too.
elco(meth, q) ==
    IF meth = ADAMS THEN
        CASE q = 0 -> <<>>
          [] q = 1 -> <<1000, 1000>>
          [] q = 2 -> <<666, 1333, -333>>
          [] q = 3 -> <<545, 1636, -818, 181>>
          [] q = 4 -> <<480, 1440, -1080, 480, -100>>
          [] q = 5 -> <<437, 1313, -1313, 729, -273, 43>>
    ELSE
        CASE q = 0 -> <<>>
          [] q = 1 -> <<1000, 1000>>
          [] q = 2 -> <<666, 1333, -333>>
          [] q = 3 -> <<545, 1636, -818, 181>>
          [] q = 4 -> <<480, 1920, -1440, 640, -120>>
          [] q = 5 -> <<437, 2189, -2189, 1459, -547, 87>>

\* elco[meth][q][j], j counted from 0 as in the code
elcoAt(meth, q, j) == elco(meth, q)[j + 1]

\* constructor()
NewLSODA ==
    [ rtol |-> Rtol1e6, atol |-> Atol1e12,
      meth |-> ADAMS, miter |-> 0,
      h |-> 0, hmin |-> 0, hmax |-> 0, maxstep |-> DefaultMaxstep,
      t |-> 0, y |-> <<>>, n |-> 0,
      yh |-> <<>>, ewt |-> <<>>, savf |-> <<>>, acor |-> <<>>,
      nst |-> 0, nfe |-> 0, nje |-> 0, nqu |-> 0, nq |-> 1, l |-> 0 ]

\* createPKSolver()
createPKSolver ==
    [NewLSODA EXCEPT !.rtol = Rtol1e8, !.atol = Atol1e12, !.maxstep = PKMaxstep]

\* a || d of JavaScript for numbers: 0 (and a missing option, modelled as 0) is falsy
OrDefault(a, d) == IF a = 0 THEN d ELSE a

\* The right-hand side f handed to solve, as a record.
\*   kind "oracle" : a function of which only the returned values matter;
\*                   answers[k] is what the k-th evaluation of an attempt returns
\*   kind "forcing": f(t, y) = g(t), g a square wave of half-period half and
\*                   amplitude amp up to waveUntil, then mid up to midUntil, then tail
\*   kind "decay"  : f(t, y) = -lambda * y (lambda in milli)
\*   kind "pk"     : odeSystem of updateSimulationLSODA with the values in params
NoRhs ==
    [ kind |-> "none", answers |-> <<>>, waveUntil |-> 0, half |-> 1, amp |-> 0,
      midUntil |-> 0, mid |-> 0, tail |-> 0, lambda |-> 0, params |-> NullObj ]

Forcing(rhs, t) ==
    IF t < rhs.waveUntil THEN (IF (t \div rhs.half) % 2 = 1 THEN rhs.amp ELSE 0)
    ELSE IF t < rhs.midUntil THEN rhs.mid
    ELSE rhs.tail

\* f(t, y) at the k-th evaluation of an attempt
EvalF(rhs, k, t, y) ==
    CASE rhs.kind = "oracle" -> rhs.answers[k]
      [] rhs.kind = "forcing" -> [i \in 1..Len(y) |-> Forcing(rhs, t)]
      [] rhs.kind = "decay" -> [i \in 1..Len(y) |-> -SMulDiv(y[i], rhs.lambda, Milli)]
      [] rhs.kind = "pk" ->
            LET inVU(d) == <<ToVU(d[1]), ToVU(d[2]), ToVU(d[3]), ToVU(d[4])>>
            IN inVU(odeSystem(t, <<FromVU(y[1]), FromVU(y[2]), FromVU(y[3]), FromVU(y[4])>>,
                              rhs.params))

\* the frame of a call that is not running
IdleCall ==
    [ pc |-> "idle", rhs |-> NoRhs, tfinal |-> 0, direction |-> 0,
      t_out |-> [first |-> 0, last |-> 0, len |-> 0],
      y_out |-> [last |-> <<>>, len |-> 0],
      told |-> 0, hstart |-> 0, ncf |-> 0, nef |-> 0, kflag |-> 0,
      iters |-> 0, converged |-> FALSE, correction_norm |-> 0, error_norm |-> 0,
      stepResult |-> [success |-> TRUE, reason |-> ""],
      stop |-> "none",
      switches |-> <<>> ]       \* history: nst at each method switch of this call

\* initializeWorkArrays(): yh has max(maxorder_adams, maxorder_bdf) + 1 rows of n
\* zeros (rows counted from 0), row 0 holds the initial conditions
initializeWorkArrays(o) ==
    LET maxorder == Max2(maxorder_adams, maxorder_bdf) + 1
    IN [o EXCEPT !.yh = [j \in 0..(maxorder - 1) |-> IF j = 0 THEN o.y ELSE Zeros(o.n)],
                 !.ewt = Zeros(o.n),
                 !.savf = Zeros(o.n),
                 !.acor = Zeros(o.n)]

\* solve without the assignments this.nq = 1 and this.meth = this.ADAMS
solveInitKeepingMethod(o, rhs, y0, t0, tfinal, options) ==
    LET o1 == [o EXCEPT !.rtol = OrDefault(options.rtol, Rtol1e6),
                        !.atol = OrDefault(options.atol, Atol1e12),
                        !.maxstep = OrDefault(options.maxstep, DefaultMaxstep),
                        !.hmax = OrDefault(options.hmax, Abs(tfinal - t0)),
                        !.hmin = OrDefault(options.hmin, 0),
                        !.n = Len(y0),
                        !.t = t0,
                        !.y = y0,
                        !.h = TDiv(tfinal - t0, 100),
                        !.nst = 0, !.nfe = 0, !.nje = 0]
        o2 == initializeWorkArrays(o1)
        direction == IF tfinal > t0 THEN 1 ELSE -1
    IN [ o |-> [o2 EXCEPT !.h = o2.h * direction],
         f |-> [IdleCall EXCEPT !.pc = "loop", !.rhs = rhs, !.tfinal = tfinal, !.direction = direction,
                                !.t_out = [first |-> t0, last |-> t0, len |-> 1],
                                !.y_out = [last |-> y0, len |-> 1]] ]

\* solve(f, y0, t0, tfinal, options), lines 113-140: options, initialisation, the
\* output arrays and the direction.  t_out and y_out are kept as (first, last,
\* length): no caller reads an inner element.
solveInit(o, rhs, y0, t0, tfinal, options) ==
    LET o1 == [o EXCEPT !.rtol = OrDefault(options.rtol, Rtol1e6),
                        !.atol = OrDefault(options.atol, Atol1e12),
                        !.maxstep = OrDefault(options.maxstep, DefaultMaxstep),
                        !.hmax = OrDefault(options.hmax, Abs(tfinal - t0)),
                        !.hmin = OrDefault(options.hmin, 0),
                        !.n = Len(y0),
                        !.t = t0,
                        !.y = y0,
                        !.h = TDiv(tfinal - t0, 100),
                        !.nst = 0, !.nfe = 0, !.nje = 0,
                        !.nq = 1,
                        !.meth = ADAMS]
        o2 == initializeWorkArrays(o1)
        direction == IF tfinal > t0 THEN 1 ELSE -1
    IN [ o |-> [o2 EXCEPT !.h = o2.h * direction],
         f |-> [IdleCall EXCEPT !.pc = "loop", !.rhs = rhs, !.tfinal = tfinal, !.direction = direction,
                                !.t_out = [first |-> t0, last |-> t0, len |-> 1],
                                !.y_out = [last |-> y0, len |-> 1]] ]

\* the while condition of solve, line 143
loopCond(o, f) ==
    \/ f.direction > 0 /\ o.t < f.tfinal
    \/ f.direction < 0 /\ o.t > f.tfinal

\* lines 145-148 and the entry of step(f), lines 205-208
enterStep(o, f) ==
    LET overshoot == \/ f.direction > 0 /\ o.t + o.h > f.tfinal
                     \/ f.direction < 0 /\ o.t + o.h < f.tfinal
        o1 == IF overshoot THEN [o EXCEPT !.h = f.tfinal - o.t] ELSE o
    IN [ o |-> o1,
         f |-> [f EXCEPT !.pc = "predict", !.told = o1.t, !.hstart = o1.h,
                         !.ncf = 0, !.nef = 0, !.kflag = 0] ]

\* predict() writing the prediction into the history row of the solution as well
predictInPlace(o) ==
    LET y == [i \in 1..o.n |->
                o.yh[0][i] + SumSeq([j \in 1..o.nq |->
                                       SMulDiv(o.yh[j][i], elcoAt(o.meth, o.nq, j), Milli)])]
    IN [o EXCEPT !.y = y, !.yh = [o.yh EXCEPT ![0] = y]]

\* predict()
predict(o) ==
    [o EXCEPT !.y = [i \in 1..o.n |->
        o.yh[0][i] + SumSeq([j \in 1..o.nq |->
                               SMulDiv(o.yh[j][i], elcoAt(o.meth, o.nq, j), Milli)])]]

\* this.h * this.savf[i]: h in time units, savf in value units per 1.0 of time
hTimes(h, fv) == SMulDiv(fv, h, TU)

\* vectorNorm(v): sqrt(sum((v[i] / 1.0)^2) / v.length), in milli.  A vector of
\* length 0 gives 0/0 = NaN, for which every comparison of the code is false;
\* the model has no such vector (n >= 1).
vectorNorm(v) ==
    LET r(i) == Min2(Huge, MulDiv(Abs(v[i]), Milli, VU))
    IN ISqrt(SumSeq([i \in 1..Len(v) |-> r(i) * r(i)]) \div Len(v))

\* a / w in milli for a, w >= 0 in TolScale units, saturating at Huge.  A weight
\* of 0 stands for a positive weight below the resolution.
Ratio(a, w) ==
    IF w = 0 THEN (IF a = 0 THEN 0 ELSE Huge)
    ELSE IF a \div w >= 10 THEN Huge
    ELSE MulDiv(a, Milli, w)

\* vectorNorm(v, w): sqrt(sum((v[i] / w[i])^2) / v.length), in milli; v in value
\* units, w in TolScale units (w[i] < 2 * TolScale)
vectorNormW(v, w) ==
    LET r(i) == IF Abs(v[i]) > 20 * VU THEN Huge
                ELSE Ratio(Abs(v[i]) * (TolScale \div VU), w[i])
    IN ISqrt(SumSeq([i \in 1..Len(v) |-> r(i) * r(i)]) \div Len(v))

\* computeErrorWeights(): ewt[i] = rtol * |y[i]| + atol, in TolScale units
computeErrorWeights(o) ==
    [o EXCEPT !.ewt = [i \in 1..o.n |-> MulDiv(Abs(o.y[i]), o.rtol, VU) + o.atol]]

\* one pass of the corrector loop, lines 291-300
correctorPass(o) ==
    LET acor == [i \in 1..o.n |-> hTimes(o.h, o.savf[i]) - o.yh[1][i]]
    IN [o EXCEPT !.acor = acor,
                 !.y = [i \in 1..o.n |->
                          o.yh[0][i] + SMulDiv(acor[i], elcoAt(o.meth, o.nq, 0), Milli)]]

\* correction_norm < 0.33
ConvergenceThreshold == (33 * Milli) \div 100
maxiter == 3

RECURSIVE correctorLoop(_, _, _)
\* the for loop of correct(f), lines 289-316
correctorLoop(o, iter, rhs) ==
    LET o1 == correctorPass(o)
        norm == vectorNorm(o1.acor)
    IN IF norm < ConvergenceThreshold
       THEN [o |-> o1, converged |-> TRUE, iters |-> iter + 1, correction_norm |-> norm]
       ELSE IF iter < maxiter - 1
            THEN correctorLoop([o1 EXCEPT !.nfe = o1.nfe + 1,
                                          !.savf = EvalF(rhs, iter + 2, o1.t + o1.h, o1.y)],
                               iter + 1, rhs)
            ELSE [o |-> o1, converged |-> FALSE, iters |-> iter + 1, correction_norm |-> norm]

\* the error test of correct(f), line 326: error_norm > 1.0 fails
errorTestFails(error_norm) == error_norm > Milli

\* correct(f), lines 318-330, after the corrector loop returned c: the convergence
\* failure, the error weights and the error test
errorTest(f, c) ==
    LET o2 == computeErrorWeights(c.o)
        error_norm == vectorNormW(o2.acor, o2.ewt)
        f1 == [f EXCEPT !.iters = c.iters, !.converged = c.converged,
                        !.correction_norm = c.correction_norm]
    IN IF ~c.converged
       THEN [o |-> c.o, f |-> [f1 EXCEPT !.kflag = -1, !.error_norm = 0]]
       ELSE IF errorTestFails(error_norm)
            THEN [o |-> o2, f |-> [f1 EXCEPT !.kflag = -2, !.error_norm = error_norm]]
            ELSE [o |-> o2, f |-> [f1 EXCEPT !.kflag = 0, !.error_norm = error_norm]]

\* correct(f): 0 = success, -1 = convergence failure, -2 = error test failure
correct(o, f, rhs) == errorTest(f, correctorLoop(o, 0, rhs))

\* updateNordsieck()
updateNordsieck(o) ==
    [o EXCEPT !.yh = [j \in DOMAIN o.yh |->
        IF j = 0 THEN o.y
        ELSE IF j = 1 THEN [i \in 1..o.n |-> hTimes(o.h, o.savf[i])]
        ELSE IF j <= o.nq THEN [i \in 1..o.n |-> o.yh[j][i] + o.acor[i]]
        ELSE o.yh[j]]]

\* selectStepSize(), lines 382-388: this.h after the increase or the decrease
stepSizeFor(o, error_norm) ==
    LET k == o.nq + 1
        grow == IF error_norm = 0 THEN 2 * Milli      \* 0.1 / 0 = Infinity
                ELSE LET q == ((Milli \div 10) * Milli) \div error_norm
                     IN IF q >= PowCap(2, k, 10000) * Milli THEN 2 * Milli
                        ELSE Min2(2 * Milli, PowInv(q, k))
        shrink == Max2(Milli \div 2, PowInv(((Milli \div 2) * Milli) \div error_norm, k))
    IN IF error_norm < Milli \div 10 THEN SMulDiv(o.h, grow, Milli)
       ELSE IF error_norm > Milli \div 2 THEN SMulDiv(o.h, shrink, Milli)
       ELSE o.h

\* selectStepSize(), lines 391-392: the step size limits
enforceLimits(o, h1) ==
    LET h2 == Max2(Abs(h1), o.hmin) * Sign(h1)
        h3 == Min2(Abs(h2), o.hmax) * Sign(h2)
    IN [o EXCEPT !.h = h3]

\* selectStepSize()
selectStepSize(o) == enforceLimits(o, stepSizeFor(o, vectorNormW(o.acor, o.ewt)))

\* estimateJacobianNorm(): the placeholder df_dy = 1.0 over min(n, 3) components,
\* times |h|; in time units (1.0 * |h|)
estimateJacobianNorm(o) ==
    (IF Min2(o.n, 3) >= 1 THEN 1 ELSE 0) * Abs(o.h)

SwitchPeriod == 20
StiffThreshold == 10
NonStiffThreshold == 1

\* checkMethodSwitch() without the test of nst
checkMethodSwitchEveryStep(o) ==
    LET jacobian_norm == estimateJacobianNorm(o)
    IN IF jacobian_norm > StiffThreshold * TU /\ o.meth = ADAMS
       THEN [o EXCEPT !.meth = BDF, !.nq = Min2(o.nq, maxorder_bdf)]
       ELSE IF jacobian_norm < NonStiffThreshold * TU /\ o.meth = BDF
       THEN [o EXCEPT !.meth = ADAMS, !.nq = Min2(o.nq, maxorder_adams)]
       ELSE o

\* checkMethodSwitch()
checkMethodSwitch(o) ==
    IF o.nst % SwitchPeriod = 0
    THEN LET jacobian_norm == estimateJacobianNorm(o)
         IN IF jacobian_norm > StiffThreshold * TU /\ o.meth = ADAMS
            THEN [o EXCEPT !.meth = BDF, !.nq = Min2(o.nq, maxorder_bdf)]
            ELSE IF jacobian_norm < NonStiffThreshold * TU /\ o.meth = BDF
            THEN [o EXCEPT !.meth = ADAMS, !.nq = Min2(o.nq, maxorder_adams)]
            ELSE o
    ELSE o

\* step(f), lines 216-220: evaluate the right-hand side at the predicted point
evaluate(o, rhs) ==
    [o EXCEPT !.nfe = o.nfe + 1, !.savf = EvalF(rhs, 1, o.t + o.h, o.y)]

\* the successful branch with the step size selected before the history update
acceptStepSelectingFirst(o) ==
    checkMethodSwitch(updateNordsieck(selectStepSize([o EXCEPT !.nst = o.nst + 1,
                                                               !.t = o.t + o.h])))

\* step(f), lines 225-239: the successful branch
acceptStep(o) ==
    checkMethodSwitch(selectStepSize(updateNordsieck([o EXCEPT !.nst = o.nst + 1,
                                                               !.t = o.t + o.h])))

MaxFailures == 10

\* h *= 0.25
quarter(h) == TDiv(h, 4)

\* this.h *= 0.5
halve(h) == TDiv(h, 2)

\* step(f) without the two limits of 10 failures
rejectStepUnlimited(o, f) ==
    LET ncf == IF f.kflag = -1 THEN f.ncf + 1 ELSE f.ncf
        nef == IF f.kflag = -2 THEN f.nef + 1 ELSE f.nef
        f1 == [f EXCEPT !.ncf = ncf, !.nef = nef]
        o1 == [o EXCEPT !.h = halve(o.h), !.y = o.yh[0]]
    IN IF Abs(o1.h) < o1.hmin
       THEN [o |-> o1, f |-> [f1 EXCEPT !.stepResult =
                [success |-> FALSE, reason |-> "Step size too small"]]]
       ELSE [o |-> o1, f |-> [f1 EXCEPT !.stepResult = [success |-> TRUE, reason |-> ""]]]

\* step(f), lines 240-261: the two failure branches and the minimum step check.
\* Returns the object, the counters and the step result (success = TRUE stands
\* for "no return yet": the while loop of step goes round again).
rejectStep(o, f) ==
    LET ncf == IF f.kflag = -1 THEN f.ncf + 1 ELSE f.ncf
        nef == IF f.kflag = -2 THEN f.nef + 1 ELSE f.nef
        f1 == [f EXCEPT !.ncf = ncf, !.nef = nef]
        o1 == [o EXCEPT !.h = halve(o.h), !.y = o.yh[0]]
    IN IF f.kflag = -1 /\ ncf >= MaxFailures
       THEN [o |-> o, f |-> [f1 EXCEPT !.stepResult =
                [success |-> FALSE, reason |-> "Too many convergence failures"]]]
       ELSE IF f.kflag = -2 /\ nef >= MaxFailures
       THEN [o |-> o, f |-> [f1 EXCEPT !.stepResult =
                [success |-> FALSE, reason |-> "Too many error test failures"]]]
       ELSE IF Abs(o1.h) < o1.hmin
       THEN [o |-> o1, f |-> [f1 EXCEPT !.stepResult =
                [success |-> FALSE, reason |-> "Step size too small"]]]
       ELSE [o |-> o1, f |-> [f1 EXCEPT !.stepResult = [success |-> TRUE, reason |-> ""]]]

\* solve, lines 158-166: store the solution, then the maximum-steps check
storeSolution(o, f) ==
    LET f1 == [f EXCEPT !.t_out = [first |-> f.t_out.first, last |-> o.t,
                                   len |-> f.t_out.len + 1],
                        !.y_out = [last |-> o.y, len |-> f.y_out.len + 1],
                        !.stepResult = [success |-> TRUE, reason |-> ""]]
    IN IF o.nst >= o.maxstep
       THEN [f1 EXCEPT !.pc = "return", !.stop = "maxstep"]
       ELSE [f1 EXCEPT !.pc = "loop"]

\* solve, lines 169-178: the returned object
solveResult(o, f) ==
    [ t |-> f.t_out, y |-> f.y_out,
      stats |-> [nsteps |-> o.nst, nfev |-> o.nfe, njev |-> o.nje,
                 method |-> IF o.meth = ADAMS THEN "Adams" ELSE "BDF"] ]

----------------------------------------------------------------------------
(* Patient, MasuiConstants, Ke0Constants and PKCalculator of scripts/main.js *)
(* and scripts/enhanced-main.js; MasuiKe0Model of ke0-masui.js.              *)

\* new Patient(): the constructor's defaults
DefaultPatient ==
    [age |-> Num(50, 1), weight |-> Num(70, 1), height |-> Num(170, 1),
     sex |-> "male", asaPS |-> "1-2"]

\* get sexValue(), get asaPSValue(), get bmi()
sexValue(patient) == IF patient.sex = "male" THEN 0 ELSE One
asaPSValue(patient) == IF patient.asaPS = "1-2" THEN 0 ELSE One
bmi(patient) == FDiv(patient.weight, FSquare(FDiv(patient.height, Num(100, 1))))

MasuiConstants ==
    [theta1 |-> Num(357, 100), theta2 |-> Num(113, 10), theta3 |-> Num(272, 10),
     theta4 |-> Num(103, 100), theta5 |-> Num(110, 100), theta6 |-> Num(401, 1000),
     theta8 |-> Num(308, 1000), theta9 |-> Num(146, 1000), theta10 |-> Num(-184, 1000),
     standardWeight |-> Num(673, 10), standardAge |-> Num(54, 1)]

\* Ke0Constants of main.js
Ke0Constants ==
    [baseLogKe0 |-> Num(-906, 100),
     ageAmplitude |-> Num(544, 100), ageMean |-> Num(30, 1),
     ageStandardDeviation |-> Num(15, 1),
     weightAmplitude |-> Num(21, 10), weightMean |-> Num(70, 1),
     weightStandardDeviation |-> Num(20, 1),
     heightAmplitude |-> Num(18, 10), heightMean |-> Num(165, 1),
     heightStandardDeviation |-> Num(15, 1),
     bmiAmplitude |-> Num(12, 10), bmiMean |-> Num(22, 1),
     bmiStandardDeviation |-> Num(5, 1),
     genderEffect |-> Num(15, 100), asaEffect |-> Num(8, 100),
     timeConversionFactor |-> Num(60, 1)]

\* Ke0Constants of enhanced-main.js
Ke0ConstantsSimplified ==
    [baseKe0 |-> Num(3, 10), ageExponent |-> Num(-15, 100), weightExponent |-> Num(-1, 10),
     sexFactor |-> Num(9, 10), asaFactor |-> Num(85, 100),
     minKe0 |-> Num(1, 10), maxKe0 |-> Num(8, 10)]

\* amplitude * Math.exp(-Math.pow((x - mean) / sd, 2) / 2)
GaussEffect(amplitude, x, mean, sd) ==
    FMul(amplitude, FExp(FDiv(FNeg(FSquare(FDiv(FAdd(x, FNeg(mean)), sd))), Num(2, 1))))

\* PKCalculator.calculateKe0 of main.js
calculateKe0Main(patient) ==
    LET c == Ke0Constants
        ageEffect == GaussEffect(c.ageAmplitude, patient.age, c.ageMean, c.ageStandardDeviation)
        weightEffect == GaussEffect(c.weightAmplitude, patient.weight, c.weightMean,
                                    c.weightStandardDeviation)
        heightEffect == GaussEffect(c.heightAmplitude, patient.height, c.heightMean,
                                    c.heightStandardDeviation)
        bmiEffect == GaussEffect(c.bmiAmplitude, bmi(patient), c.bmiMean, c.bmiStandardDeviation)
        logKe0 == FAdd(FAdd(FAdd(FAdd(FAdd(FAdd(c.baseLogKe0, ageEffect), weightEffect),
                                      heightEffect), bmiEffect),
                            FMul(c.genderEffect, sexValue(patient))),
                       FMul(c.asaEffect, asaPSValue(patient)))
    IN FDiv(FExp(logKe0), c.timeConversionFactor)

\* PKCalculator.calculateKe0Simplified of enhanced-main.js
calculateKe0Simplified(patient) ==
    LET c == Ke0ConstantsSimplified
        ageRatio == FDiv(patient.age, MasuiConstants.standardAge)
        ageFactor == FPow(ageRatio, c.ageExponent)
        weightRatio == FDiv(patient.weight, MasuiConstants.standardWeight)
        weightFactor == FPow(weightRatio, c.weightExponent)
        sexFactor == IF sexValue(patient) = 0 THEN One ELSE c.sexFactor
        asaFactor == IF asaPSValue(patient) = 0 THEN One ELSE c.asaFactor
        ke0 == FMul(FMul(FMul(FMul(c.baseKe0, ageFactor), weightFactor), sexFactor), asaFactor)
    IN \* Math.max(min, Math.min(max, NaN)) is NaN
       FMax(c.minKe0, FMin(c.maxKe0, ke0))

\* a1 * a2 * ... of a sequence of numbers
RECURSIVE FProd(_)
FProd(xs) == IF xs = <<>> THEN One ELSE FMul(Head(xs), FProd(Tail(xs)))
RECURSIVE FSum(_)
FSum(xs) == IF xs = <<>> THEN 0 ELSE FAdd(Head(xs), FSum(Tail(xs)))

\* MasuiKe0Model.calculateKe0 (with calculateStandardizedVariables and
\* calculateMainEffects)
MasuiKe0ModelCalculateKe0(patient) ==
    LET age == FDiv(FAdd(patient.age, FNeg(Num(54, 1))), Num(15, 1))
        tbw == FDiv(FAdd(patient.weight, FNeg(Num(673, 10))), Num(15, 1))
        height == FDiv(FAdd(patient.height, FNeg(Num(165, 1))), Num(10, 1))
        sex == sexValue(patient)
        asaps == asaPSValue(patient)
        half == Num(-5, 10)
        F_age == FMul(Num(544, 100), FExp(FMul(half, FSquare(age))))
        F_TBW == FMul(Num(21, 10), FExp(FMul(half, FSquare(tbw))))
        F_height == FMul(Num(18, 10), FExp(FMul(half, FSquare(height))))
        F_sex == FMul(Num(15, 100), sex)
        F_ASAPS == FMul(Num(8, 100), asaps)
        logKe0 == FSum(<<
            Num(-906, 100), F_age, F_TBW, F_height, FMul(Num(999, 1000), F_sex), F_ASAPS,
            FNeg(FProd(<<Num(450, 100), age, tbw>>)),
            FNeg(FProd(<<Num(451, 100), age, height>>)),
            FProd(<<Num(246, 100), age, sex>>),
            FProd(<<Num(335, 100), age, asaps>>),
            FNeg(FProd(<<Num(126, 10), tbw, height>>)),
            FProd(<<Num(394, 1000), tbw, sex>>),
            FProd(<<Num(206, 100), tbw, asaps>>),
            FProd(<<Num(390, 1000), height, sex>>),
            FProd(<<Num(207, 100), height, asaps>>),
            FProd(<<Num(503, 100), sex, asaps>>),
            FProd(<<Num(998, 10), age, tbw, height>>),
            FProd(<<Num(511, 100), tbw, height, sex>>),
            FNeg(FProd(<<Num(500, 100), tbw, sex, asaps>>)),
            FNeg(FProd(<<Num(504, 100), height, sex, asaps>>)),
            FProd(<<One, tbw, height, asaps>>),
            FNeg(FProd(<<Num(394, 10), tbw, height, sex, asaps>>)) >>)
    IN FDiv(FExp(logKe0), Num(60, 1))

\* What the page provides to PKCalculator.calculateKe0 of enhanced-main.js:
\*   calculator : typeof MasuiKe0Calculator ("undefined"), or what
\*                calculateKe0Complete does ("returns" its result, "throws")
\*   result     : the object calculateKe0Complete returns; the fields read are
\*                success, ke0_numerical and ke0_regression
\*   model      : typeof MasuiKe0Model ("undefined" or "function")
NoEnvironment ==
    [calculator |-> "undefined",
     result |-> [success |-> FALSE, ke0_numerical |-> JSNull, ke0_regression |-> 0],
     model |-> "undefined"]

\* no page is loaded: the classes are used on their own
NoPage ==
    /\ page = NullObj
    /\ clock = 0
    /\ ui = NullObj
    /\ engine = NullObj
    /\ run = NullObj

\* no call of PKCalculator
IdlePKCall ==
    [pc |-> "idle", script |-> "main", patient |-> DefaultPatient, env |-> NoEnvironment]

\* a calculateKe0 that asks for the regression value first
calculateKe0RegressionFirst(patient, env) ==
    IF env.calculator = "throws"
    THEN [value |-> calculateKe0Simplified(patient), path |-> "catch",
          log |-> "Ke0 calculation error:"]
    ELSE IF /\ env.calculator = "returns"
            /\ env.result.success
            /\ Gt0(env.result.ke0_regression)
    THEN [value |-> env.result.ke0_regression, path |-> "regression",
          log |-> "Using regression ke0"]
    ELSE IF /\ env.calculator = "returns"
            /\ env.result.success
            /\ env.result.ke0_numerical # JSNull
            /\ Gt0(env.result.ke0_numerical)
    THEN [value |-> env.result.ke0_numerical, path |-> "numerical",
          log |-> "Using numerical ke0"]
    ELSE IF env.model # "undefined"
    THEN [value |-> MasuiKe0ModelCalculateKe0(patient), path |-> "model",
          log |-> "Using complete Masui ke0 model (fallback)"]
    ELSE [value |-> calculateKe0Simplified(patient), path |-> "simplified",
          log |-> "Using simplified ke0 model"]

\* PKCalculator.calculateKe0 of enhanced-main.js.  value is what it returns;
\* path names the return statement taken and log is what it writes to the console.
calculateKe0Enhanced(patient, env) ==
    IF env.calculator = "throws"
    THEN [value |-> calculateKe0Simplified(patient), path |-> "catch",
          log |-> "Ke0 calculation error:"]
    ELSE IF /\ env.calculator = "returns"
            /\ env.result.success
            /\ env.result.ke0_numerical # JSNull
            /\ Gt0(env.result.ke0_numerical)
    THEN [value |-> env.result.ke0_numerical, path |-> "numerical",
          log |-> "Using numerical ke0"]
    ELSE IF /\ env.calculator = "returns"
            /\ env.result.success
            /\ Gt0(env.result.ke0_regression)
    THEN [value |-> env.result.ke0_regression, path |-> "regression",
          log |-> "Using regression ke0"]
    ELSE IF env.model # "undefined"
    THEN [value |-> MasuiKe0ModelCalculateKe0(patient), path |-> "model",
          log |-> "Using complete Masui ke0 model (fallback)"]
    ELSE [value |-> calculateKe0Simplified(patient), path |-> "simplified",
          log |-> "Using simplified ke0 model"]

\* the object calculatePKParameters returns, given ke0
PKParameters(patient, ke0) ==
    LET c == MasuiConstants
        weightRatio == FDiv(patient.weight, c.standardWeight)
        ageRatio == FDiv(patient.age, c.standardAge)
        v1 == FMul(c.theta1, weightRatio)
        v2 == FMul(c.theta2, weightRatio)
        v3 == FMul(FMul(c.theta3, weightRatio), FPow(ageRatio, c.theta8))
        cl == FMul(FMul(c.theta4, weightRatio),
                   FExp(FAdd(FMul(c.theta9, sexValue(patient)),
                             FMul(c.theta10, asaPSValue(patient)))))
        q2 == FMul(c.theta5, weightRatio)
        q3 == FMul(c.theta6, weightRatio)
    IN [v1 |-> v1, v2 |-> v2, v3 |-> v3, cl |-> cl, q2 |-> q2, q3 |-> q3, ke0 |-> ke0,
        k10 |-> FDiv(cl, v1), k12 |-> FDiv(q2, v1), k21 |-> FDiv(q2, v2),
        k13 |-> FDiv(q3, v1), k31 |-> FDiv(q3, v3)]

\* PKCalculator.calculatePKParameters of main.js
calculatePKParametersMain(patient) == PKParameters(patient, calculateKe0Main(patient))

\* PKCalculator.calculatePKParameters of enhanced-main.js
calculatePKParametersEnhanced(patient, env) ==
    PKParameters(patient, calculateKe0Enhanced(patient, env).value)

----------------------------------------------------------------------------
(* SimulationEngine of scripts/main.js.  Times of day and elapsedTime are   *)
(* in milliseconds, times handed to a solver in units of 1/TU minute.       *)
(* this.patient is a reference to the Patient object start() was given; the *)
(* operators below take the object's current fields as the argument patient. *)
(* A field that holds null or an object is NullObj or a record.              *)

\* options of solve: 0 stands for an option that is not given
NoOptions == [rtol |-> 0, atol |-> 0, maxstep |-> 0, hmax |-> 0, hmin |-> 0]
\* the options updateSimulationLSODA passes (main.js, lines 249-253)
EngineOptions ==
    [NoOptions EXCEPT !.rtol = TolScale \div 100000000, !.atol = Atol1e12, !.maxstep = 100]
\* 1.0 / 60.0 minutes
Tick == TU \div 60
\* the period of the simulation timer: setInterval(..., 1000)
TimerPeriod == 1000

\* elapsedTime / 60.0 in units of 1/TU minute (elapsedTime in milliseconds)
MinutesOf(elapsedTime) == (elapsedTime * (TU \div 12000)) \div 5

\* the reference start() stores in this.patient: the controller's Patient object
PatientRef == [ref |-> "uiController.patient"]

ZeroState == [a1 |-> 0, a2 |-> 0, a3 |-> 0, ce |-> 0]

\* constructor() of SimulationEngine and of EnhancedSimulationEngine: one record
\* for both, lastSolveTime and solutionCache are fields of the enhanced engine,
\* useLSODA and integrationStats of SimulationEngine.  this.lsodaSolver is the
\* variable lsodaSolver.
NewEngine(useLSODA) ==
    [ isRunning |-> FALSE, startTime |-> NullObj, elapsedTime |-> 0,
      patient |-> NullObj, pkParams |-> NullObj, state |-> ZeroState,
      bolusDose |-> 0, continuousDose |-> 0, snapshots |-> <<>>, timer |-> NullObj,
      useLSODA |-> useLSODA, integrationStats |-> NullObj,
      lastSolveTime |-> 0, solutionCache |-> NullObj ]

\* Math.max(0, x)
MathMax0(x) == FMax(0, x)

\* the four assignments this.state.x = Math.max(0, ...) from a vector y
clampState(y) ==
    [a1 |-> MathMax0(y[1]), a2 |-> MathMax0(y[2]), a3 |-> MathMax0(y[3]), ce |-> MathMax0(y[4])]

\* [this.state.a1, this.state.a2, this.state.a3, this.state.ce]
stateVector(state) == <<state.a1, state.a2, state.a3, state.ce>>

\* getPlasmaConcentration(), getEffectSiteConcentration()
getPlasmaConcentration(e) == FDiv(e.state.a1, e.pkParams.v1)
getEffectSiteConcentration(e) == e.state.ce

\* SimulationEngine.start(patient, bolusDose, continuousDose) at time now
startMain(e, patient, bolusDose, continuousDose, now) ==
    IF e.isRunning THEN e
    ELSE [e EXCEPT !.patient = PatientRef,
                   !.pkParams = calculatePKParametersMain(patient),
                   !.bolusDose = bolusDose,
                   !.continuousDose = continuousDose,
                   !.state = [a1 |-> bolusDose, a2 |-> 0, a3 |-> 0, ce |-> 0],
                   !.startTime = [time |-> now],
                   !.elapsedTime = 0,
                   !.snapshots = <<>>,
                   !.isRunning = TRUE,
                   !.timer = [interval |-> TimerPeriod]]

\* stop() without this.isRunning = false
stopClearingTimerOnly(e) == [e EXCEPT !.timer = NullObj]

\* stop() that leaves the timer field as it is
stopKeepingTimer(e) == [e EXCEPT !.isRunning = FALSE]

\* takeSnapshot() with push in place of unshift
takeSnapshotAtEnd(e, now) ==
    IF ~e.isRunning THEN e
    ELSE [e EXCEPT !.snapshots =
            Append(e.snapshots,
                   [timestamp |-> now, elapsedTime |-> e.elapsedTime,
                    plasmaConcentration |-> FDiv(e.state.a1, e.pkParams.v1),
                    effectSiteConcentration |-> e.state.ce])]

\* stop() of both engines
stop(e) == [e EXCEPT !.isRunning = FALSE, !.timer = NullObj]

\* takeSnapshot() of both engines at time now
takeSnapshot(e, now) ==
    IF ~e.isRunning THEN e
    ELSE [e EXCEPT !.snapshots =
            <<[timestamp |-> now, elapsedTime |-> e.elapsedTime,
               plasmaConcentration |-> getPlasmaConcentration(e),
               effectSiteConcentration |-> getEffectSiteConcentration(e)]>> \o e.snapshots]

\* the update with the effect-site derivative taken at the state before the tick
updateSimulationForwardEuler(e, patient) ==
    LET s == e.state
        d == odeSystem(0, <<s.a1, s.a2, s.a3, s.ce>>,
                       [pkParams |-> e.pkParams, continuousDose |-> e.continuousDose,
                        patient |-> patient])
    IN [e EXCEPT !.state = clampState(<<FAdd(s.a1, FRat(d[1], 1, 60)),
                                        FAdd(s.a2, FRat(d[2], 1, 60)),
                                        FAdd(s.a3, FRat(d[3], 1, 60)),
                                        FAdd(s.ce, FRat(d[4], 1, 60))>>)]

\* updateSimulationEuler() of both engines; (dt / 60.0) * x is x / 60
updateSimulationEuler(e, patient) ==
    LET p == e.pkParams
        s == e.state
        rate == continuousRate(e.continuousDose, patient)
        da1_dt == FAdd(FAdd(FAdd(FAdd(FAdd(rate, FNeg(FMul(p.k10, s.a1))),
                                      FNeg(FMul(p.k12, s.a1))),
                                 FMul(p.k21, s.a2)),
                            FNeg(FMul(p.k13, s.a1))),
                       FMul(p.k31, s.a3))
        da2_dt == FAdd(FMul(p.k12, s.a1), FNeg(FMul(p.k21, s.a2)))
        da3_dt == FAdd(FMul(p.k13, s.a1), FNeg(FMul(p.k31, s.a3)))
        a1 == FAdd(s.a1, FRat(da1_dt, 1, 60))
        a2 == FAdd(s.a2, FRat(da2_dt, 1, 60))
        a3 == FAdd(s.a3, FRat(da3_dt, 1, 60))
        plasmaConc == FDiv(a1, p.v1)
        dce_dt == FMul(p.ke0, FAdd(plasmaConc, FNeg(s.ce)))
        ce == FAdd(s.ce, FRat(dce_dt, 1, 60))
    IN [e EXCEPT !.state = clampState(<<a1, a2, a3, ce>>)]

RECURSIVE solveLoop(_, _)
RECURSIVE stepLoop(_, _)
RECURSIVE afterCorrect(_)
RECURSIVE afterAccept(_, _)
RECURSIVE afterReject(_)
\* the while loop of LSODA.solve (lines 143-167) run to its end
solveLoop(o, f) ==
    IF ~loopCond(o, f) THEN [o |-> o, f |-> [f EXCEPT !.pc = "return", !.stop = "tfinal"]]
    ELSE LET s == enterStep(o, f) IN stepLoop(s.o, s.f)
\* the while (true) of LSODA.step (lines 210-262), then the rest of the loop body of solve
stepLoop(o, f) == afterCorrect(correct(evaluate(predict(o), f.rhs), f, f.rhs))
\* step(f), lines 225 and 240: the branch on kflag
afterCorrect(c) ==
    IF c.f.kflag = 0 THEN afterAccept(acceptStep(c.o), c.f)
    ELSE afterReject(rejectStep(c.o, c.f))
\* solve, lines 153-166, after a successful step
afterAccept(o1, f) ==
    LET f1 == storeSolution(o1, f)
    IN IF f1.pc = "return" THEN [o |-> o1, f |-> f1] ELSE solveLoop(o1, f1)
\* step(f), lines 240-261, after a failed attempt: another attempt or the return
afterReject(r) ==
    IF r.f.stepResult.success THEN stepLoop(r.o, r.f)
    ELSE [o |-> r.o, f |-> [r.f EXCEPT !.pc = "return", !.stop = "step"]]

\* solve, lines 169-178: the object after the call, the returned value and the
\* reason the loop ended
returned(r) == [o |-> r.o, result |-> solveResult(r.o, r.f), stop |-> r.f.stop]

\* LSODA.solve(f, y0, t0, tfinal, options) from call to return: the object after the
\* call and the returned value
solve(o, rhs, y0, t0, tfinal, options) ==
    LET s == solveInit(o, rhs, y0, t0, tfinal, options)
    IN returned(solveLoop(s.o, s.f))

\* updateSimulationLSODA(), lines 255-265, with the value r of solve: the state is
\* taken from the last stored point where the result has more than one
applyResult(e, r) ==
    LET finalY == r.result.y.last
    IN [ engine |-> IF r.result.t.len > 1
                    THEN [e EXCEPT !.state = clampState(<<FromVU(finalY[1]), FromVU(finalY[2]),
                                                          FromVU(finalY[3]), FromVU(finalY[4])>>),
                                   !.integrationStats = r.result.stats]
                    ELSE e,
         solver |-> r.o,
         result |-> r.result,
         path |-> "LSODA" ]

\* updateSimulationLSODA(): the engine, the solver object and the result of solve
\* after it.  LSODA.solve has no throw statement and odeSystem does not throw, so
\* the catch block (lines 266-270) is entered by no call.
updateSimulationLSODA(e, solver, patient) ==
    LET currentTimeMin == MinutesOf(e.elapsedTime)
        nextTimeMin == currentTimeMin + Tick
        rhs == [NoRhs EXCEPT !.kind = "pk",
                             !.params = [pkParams |-> e.pkParams, patient |-> patient,
                                         continuousDose |-> e.continuousDose]]
        y0 == <<ToVU(e.state.a1), ToVU(e.state.a2), ToVU(e.state.a3), ToVU(e.state.ce)>>
    IN applyResult(e, solve(solver, rhs, y0, currentTimeMin, nextTimeMin, EngineOptions))

\* SimulationEngine.updateSimulation() at time now
updateSimulationMain(e, solver, patient, now) ==
    IF ~e.isRunning \/ e.startTime = NullObj
    THEN [engine |-> e, solver |-> solver, result |-> NullObj, path |-> "none"]
    ELSE LET e1 == [e EXCEPT !.elapsedTime = now - e.startTime.time]
         IN IF e1.useLSODA /\ solver # NullObj
            THEN updateSimulationLSODA(e1, solver, patient)
            ELSE [engine |-> updateSimulationEuler(e1, patient), solver |-> solver,
                  result |-> NullObj, path |-> "Euler"]

----------------------------------------------------------------------------
(* The Runge-Kutta-Fehlberg step of RKF45Method (scripts/utils/desolve.js)  *)
(* and of SimpleDeSolveODE (scripts/enhanced-main.js): the same tableau.    *)
(* A step size is an integer number of units of 1/TU minute, or NaN.        *)
(* The difference of the fourth and the fifth order solution is far below   *)
(* the resolution of the numbers: an error is 0 where no stage has a        *)
(* non-zero derivative, Tiny (a positive value below every tolerance of the *)
(* solvers) where one has, and Infinity or NaN where the arithmetic gives   *)
(* them.                                                                    *)

Tiny == One \div One

\* sum over l of (n / d) * k[l][j], terms = << <<n, d, k>>, ... >>
Comb(j, terms) ==
    FSum([l \in 1..Len(terms) |-> FRat(terms[l][3][j], terms[l][1], terms[l][2])])

\* y[j] + h * sum for the four components
Stage(y, h, terms) ==
    << FAdd(y[1], FRat(Comb(1, terms), h, TU)), FAdd(y[2], FRat(Comb(2, terms), h, TU)),
       FAdd(y[3], FRat(Comb(3, terms), h, TU)), FAdd(y[4], FRat(Comb(4, terms), h, TU)) >>

\* Math.abs(y4i - y5i) where ks are the six derivatives of component i
StepError(y4i, y5i, ks) ==
    LET d == FAdd(y4i, FNeg(y5i))
    IN IF d = NaN THEN NaN
       ELSE IF ~IsFinite(d) THEN PosInf
       ELSE IF \A l \in 1..Len(ks) : ks[l] = 0 THEN 0
       ELSE Tiny

\* the Butcher tableau of rkf45Step (lines 298-307): b, c4 and c5 as ratios
tableauB ==
    << <<>>,
       << <<1, 4>> >>,
       << <<3, 32>>, <<9, 32>> >>,
       << <<1932, 2197>>, <<-7200, 2197>>, <<7296, 2197>> >>,
       << <<439, 216>>, <<-8, 1>>, <<3680, 513>>, <<-845, 4104>> >>,
       << <<-8, 27>>, <<2, 1>>, <<-3544, 2565>>, <<1859, 4104>>, <<-11, 40>> >> >>
c4 == << <<25, 216>>, <<0, 1>>, <<1408, 2565>>, <<2197, 4104>>, <<-1, 5>>, <<0, 1>> >>
c5 == << <<16, 135>>, <<0, 1>>, <<6656, 12825>>, <<28561, 56430>>, <<-9, 50>>, <<2, 55>> >>

\* the terms of a row of the tableau with the derivatives k
Terms(row, k) == [l \in 1..Len(row) |-> <<row[l][1], row[l][2], k[l]>>]

RECURSIVE stages(_, _, _, _, _)
\* k[0] to k[5] of rkf45Step (lines 313-326), from the derivatives k computed so far
stages(t, y, h, params, k) ==
    IF Len(k) = 6 THEN k
    ELSE stages(t, y, h, params,
                Append(k, odeSystem(t, IF k = <<>> THEN y
                                       ELSE Stage(y, h, Terms(tableauB[Len(k) + 1], k)),
                                    params)))

\* rkf45Step, lines 329-351: y4, y5 and error from the six derivatives
estimates(y, h, k) ==
    LET y4 == Stage(y, h, Terms(c4, k))
        y5 == Stage(y, h, Terms(c5, k))
        ks(i) == <<k[1][i], k[2][i], k[3][i], k[4][i], k[5][i], k[6][i]>>
    IN [ y4 |-> y4, y5 |-> y5,
         error |-> << StepError(y4[1], y5[1], ks(1)), StepError(y4[2], y5[2], ks(2)),
                      StepError(y4[3], y5[3], ks(3)), StepError(y4[4], y5[4], ks(4)) >> ]

\* rkf45Step(func, t, y, h, options) of RKF45Method: y4, y5 and error
rkf45Step(t, y, h, params) == estimates(y, h, stages(t, y, h, params, <<>>))

\* Math.max(...v) for v of non-negative numbers and NaN
MaxOf(v) ==
    IF \E i \in 1..Len(v) : v[i] = NaN THEN NaN
    ELSE CHOOSE m \in {v[i] : i \in 1..Len(v)} : \A i \in 1..Len(v) : v[i] <= m

\* vectorNorm(result.error, errorWeights) of RKF45Method.solve (lines 258-259).  The
\* weights rtol * |y5i| + atol are positive, or Infinity or NaN with y5i.
errorNorm(r) ==
    LET q(i) == IF r.error[i] = NaN \/ r.y5[i] = NaN THEN NaN
                ELSE IF ~IsFinite(r.y5[i]) THEN (IF r.error[i] = PosInf THEN NaN ELSE 0)
                ELSE r.error[i]
    IN MaxOf(<<q(1), q(2), q(3), q(4)>>)

\* factor * h for a step size h
ScaleStep(h, factor) == IF factor = NaN THEN NaN ELSE MulDiv(h, factor, One)

\* defaults of new DeSolve() (lines 24-28) that RKF45Method.solve reads; hmax is
\* Infinity and hmin 0: Math.min(hmax, x) and Math.max(hmin, x) return x
maxsteps == 100000
safety == Num(9, 10)
maxFactor == Num(5, 1)
minFactor == Num(2, 10)

\* error <= 1.0 of RKF45Method.solve (line 261)
stepAccepted(error) == FLe(error, One)

RECURSIVE rkf45Loop(_, _, _, _, _, _, _)
RECURSIVE errorControl(_, _, _, _, _, _, _, _)
\* the for loop of RKF45Method.solve (lines 243-290) with times = [t0, tend], from
\* iteration step on; sol holds the length of solution.y, its last element and stats,
\* and as history the sum of the step sizes of the accepted steps (integrated).
\* Once h is NaN every later iteration rejects its step and leaves h NaN.
rkf45Loop(step, t, y, h, tend, sol, params) ==
    IF step >= maxsteps \/ sol.len >= 2 THEN sol
    ELSE IF h = NaN
    THEN [sol EXCEPT !.stats.nfailed = @ + (maxsteps - step),
                     !.stats.nfevals = @ + 6 * (maxsteps - step)]
    ELSE LET h1 == IF t + h > tend THEN tend - t ELSE h
         IN errorControl(step, t, y, h1, tend, sol, params, rkf45Step(t, y, h1, params))

\* lines 255-285 of the loop body with the result r of rkf45Step for the step h1.
\* A step with error 0 that returns y keeps h, and func does not read t: the
\* iterations up to tend repeat it, and the model counts them at once.
errorControl(step, t, y, h1, tend, sol, params, r) ==
    LET error == errorNorm(r)
        counted == [sol EXCEPT !.stats.nfevals = @ + 6]
        rest == ((tend - t) + (h1 - 1)) \div h1
    IN IF stepAccepted(error) /\ error = 0 /\ r.y5 = y /\ h1 > 0 /\ step + rest <= maxsteps
       THEN [sol EXCEPT !.len = @ + 1, !.last = y, !.stats.nsteps = @ + rest,
                        !.stats.nfevals = @ + 6 * rest,
                        !.integrated = @ + (tend - t)]
       ELSE IF stepAccepted(error)
       THEN LET factor == FMin(maxFactor, FMax(minFactor,
                              FMul(safety, FPow(FDiv(One, error), Num(2, 10)))))
                h2 == IF Gt0(error) THEN ScaleStep(h1, factor) ELSE h1
                sol1 == [counted EXCEPT !.stats.nsteps = @ + 1, !.integrated = @ + h1]
                sol2 == IF t + h1 = tend
                        THEN [sol1 EXCEPT !.len = @ + 1, !.last = r.y5] ELSE sol1
            IN rkf45Loop(step + 1, t + h1, r.y5, h2, tend, sol2, params)
       ELSE LET factor == FMax(minFactor,
                               FMul(safety, FPow(FDiv(One, error), Num(25, 100))))
            IN rkf45Loop(step + 1, t, y, ScaleStep(h1, factor), tend,
                         [counted EXCEPT !.stats.nfailed = @ + 1], params)

\* deSolve.ode(func, y0, [t0, tend], 'rkf45', params): RKF45Method.solve with the
\* defaults.  The test h < hmin (line 287) is false for every h with hmin = 0, and
\* 'rkf45' is a known method: ode returns.
ode(y0, t0, tend, params) ==
    rkf45Loop(0, t0, y0, (tend - t0) \div 100, tend,
              [len |-> 1, last |-> y0, stats |-> [nsteps |-> 0, nfailed |-> 0, nfevals |-> 0],
               integrated |-> 0],
              params)

----------------------------------------------------------------------------
(* SimpleDeSolveODE and EnhancedSimulationEngine of scripts/enhanced-main.js *)

\* rkf45Step of SimpleDeSolveODE, lines 125-133, with y4, y5 and error in r.  The
\* tolerance Math.max(rtol * max|y4|, atol) with rtol = 1e-6 and atol = 1e-9 is at
\* least the resolution of the numbers.
judged(r) ==
    LET maxError == MaxOf(r.error)
        absY4 == [i \in 1..4 |-> IF r.y4[i] = NaN THEN NaN ELSE Abs(r.y4[i])]
        tolerance == FMax(FRat(MaxOf(absY4), 1, One), Tiny)
    IN [y |-> r.y5, error |-> maxError, acceptable |-> FLe(maxError, tolerance)]

\* rkf45Step(func, t, y, h, params) of SimpleDeSolveODE: y, error and acceptable
simpleRkf45Step(t, y, h, params) == judged(rkf45Step(t, y, h, params))

\* result.error < this.rtol / 10 of solve (line 170): 1e-7 is above the error of a
\* step whose error is below the resolution
errorVerySmall(error) == error # NaN /\ error <= Tiny

\* Math.min(h * 1.5, 0.1)
growStep(h) == IF (h * 3) \div 2 <= TU \div 10 THEN (h * 3) \div 2 ELSE TU \div 10

RECURSIVE attemptLoop(_, _, _, _, _, _)
RECURSIVE attempted(_, _, _, _, _, _, _)
\* the inner while loop of SimpleDeSolveODE.solve (lines 158-180), method 'rkf45'
attemptLoop(t, y, h, attempts, rejections, params) ==
    IF attempts >= 10
    THEN [stepAccepted |-> FALSE, y |-> y, h |-> h, used |-> 0, rejections |-> rejections,
          still |-> FALSE]
    ELSE attempted(t, y, h, attempts, rejections, params, simpleRkf45Step(t, y, h, params))

\* lines 166-179 with the result r of rkf45Step: acceptance and growth, or halving
attempted(t, y, h, attempts, rejections, params, r) ==
    IF r.acceptable
    THEN [stepAccepted |-> TRUE, y |-> r.y,
          h |-> IF errorVerySmall(r.error) THEN growStep(h) ELSE h,
          used |-> h, rejections |-> rejections, still |-> r.error = 0 /\ r.y = y]
    ELSE attemptLoop(t, y, h \div 2, attempts + 1, rejections + 1, params)

RECURSIVE simpleLoop(_, _, _, _, _, _, _)
RECURSIVE stepped(_, _, _, _, _)
\* the while (t < tf) loop of SimpleDeSolveODE.solve (lines 149-191); sol holds the
\* length of solution.y, its last element and stats, and as history the sum of the
\* step sizes rkf45Step was given in the accepted steps (integrated).  A step with
\* error 0 that returns y is accepted with any h, and func does not read t: once
\* still, the model repeats the step without computing it again.
simpleLoop(t, y, h, tf, sol, params, still) ==
    IF ~(t < tf) THEN sol
    ELSE LET h1 == IF t + h > tf THEN tf - t ELSE h
         IN stepped(t, tf, sol, params,
                    IF still
                    THEN [stepAccepted |-> TRUE, y |-> y, h |-> growStep(h1), used |-> h1,
                          rejections |-> 0, still |-> TRUE]
                    ELSE attemptLoop(t, y, h1, 0, 0, params))

\* lines 182-190 with the outcome a of the inner loop: the accepted step is stored,
\* a step that was not accepted ends the loop
stepped(t, tf, sol, params, a) ==
    LET sol1 == [sol EXCEPT !.stats.rejections = @ + a.rejections]
    IN IF a.stepAccepted
       THEN simpleLoop(t + a.h, a.y, a.h, tf,
                       [sol1 EXCEPT !.len = @ + 1, !.last = a.y, !.stats.steps = @ + 1,
                                    !.integrated = @ + a.used],
                       params, a.still)
       ELSE sol1

\* SimpleDeSolveODE.solve(func, y0, [t0, tf], params) with method 'rkf45'
simpleSolve(y0, t0, tf, params) ==
    simpleLoop(t0, y0, IF TU \div 100 <= (tf - t0) \div 100 THEN TU \div 100 ELSE (tf - t0) \div 100,
               tf, [len |-> 1, last |-> y0, stats |-> [steps |-> 0, rejections |-> 0],
                    integrated |-> 0],
               params, FALSE)

\* EnhancedSimulationEngine.start(patient, bolusDose, continuousDose) at time now in
\* the page environment env
startEnhanced(e, patient, env, bolusDose, continuousDose, now) ==
    IF e.isRunning THEN e
    ELSE [e EXCEPT !.patient = PatientRef,
                   !.pkParams = calculatePKParametersEnhanced(patient, env),
                   !.bolusDose = bolusDose,
                   !.continuousDose = continuousDose,
                   !.state = [a1 |-> bolusDose, a2 |-> 0, a3 |-> 0, ce |-> 0],
                   !.startTime = [time |-> now],
                   !.elapsedTime = 0,
                   !.snapshots = <<>>,
                   !.isRunning = TRUE,
                   !.lastSolveTime = 0,
                   !.timer = [interval |-> TimerPeriod]]

\* the solution of lines 399-417 of updateSimulation(): the solver's result for the
\* interval from lastSolveTime to elapsedTime / 60.0
tickSolution(e, useExternalDeSolve, patient) ==
    LET params == [pkParams |-> e.pkParams, patient |-> patient,
                   continuousDose |-> e.continuousDose]
    IN IF useExternalDeSolve
       THEN ode(stateVector(e.state), e.lastSolveTime, MinutesOf(e.elapsedTime), params)
       ELSE simpleSolve(stateVector(e.state), e.lastSolveTime, MinutesOf(e.elapsedTime), params)

\* lines 419-428 of updateSimulation() with the Euler step of the catch block also
\* taken where the solution has no point after the initial one
applySolutionOrEuler(e1, useExternalDeSolve, patient, solution) ==
    [engine |-> IF solution.len > 1
                THEN [e1 EXCEPT !.state = clampState(solution.last),
                                !.lastSolveTime = MinutesOf(e1.elapsedTime),
                                !.solutionCache = solution]
                ELSE updateSimulationEuler(e1, patient),
     result |-> solution,
     path |-> IF useExternalDeSolve THEN "deSolve" ELSE "fallback"]

\* lines 419-428 of updateSimulation() with the solution of the solver
applySolution(e1, useExternalDeSolve, patient, solution) ==
    [engine |-> IF solution.len > 1
                THEN [e1 EXCEPT !.state = clampState(solution.last),
                                !.lastSolveTime = MinutesOf(e1.elapsedTime),
                                !.solutionCache = solution]
                ELSE e1,
     result |-> solution,
     path |-> IF useExternalDeSolve THEN "deSolve" ELSE "fallback"]

\* EnhancedSimulationEngine.updateSimulation() at time now.  deSolve.ode with
\* 'rkf45' and SimpleDeSolveODE.solve return for every argument and odeSystem does
\* not throw, so the catch block (lines 430-434) is entered by no call.
updateSimulationEnhanced(e, useExternalDeSolve, patient, now) ==
    IF ~e.isRunning \/ e.startTime = NullObj
    THEN [engine |-> e, result |-> NullObj, path |-> "none"]
    ELSE LET e1 == [e EXCEPT !.elapsedTime = now - e.startTime.time]
         IN IF ~(MinutesOf(e1.elapsedTime) > e1.lastSolveTime)
            THEN [engine |-> e1, result |-> NullObj, path |-> "none"]
            ELSE applySolution(e1, useExternalDeSolve, patient,
                               tickSolution(e1, useExternalDeSolve, patient))

----------------------------------------------------------------------------
(* SpecPK: PKCalculator.calculatePKParameters of main.js and of             *)
(* enhanced-main.js applied to a patient.  calculatePKParameters is static  *)
(* and takes any Patient object; the page environment decides what          *)
(* calculateKe0 of enhanced-main.js finds.                                  *)

\* calls of calculatePKParameters in a behaviour
MaxCalls == 2

\* calculatePKParameters that keeps the weight ratio in the Patient object
patientWithWeightRatio(patient) ==
    [patient EXCEPT !.weight = FDiv(patient.weight, MasuiConstants.standardWeight)]

\* the Patient object after calculatePKParameters(patient) of either script: the
\* method and the getters it calls read its fields and assign none
patientAfterCalculate(patient) == patient

Ages == {Num(18, 1), Num(100, 1)}
Weights == {Num(-5, 1), 0, Num(673, 10), Num(200, 1)}
Heights == {Num(-10, 1), 0, Num(165, 1), Num(220, 1)}
Patients ==
    { [age |-> a, weight |-> w, height |-> h, sex |-> sa[1], asaPS |-> sa[2]] :
        a \in Ages, w \in Weights, h \in Heights,
        sa \in {<<"male", "1-2">>, <<"female", "3-4">>} }

\* values of ke0_numerical and ke0_regression in the result of calculateKe0Complete
NumericalValues == {JSNull, NaN, Num(-1, 10), Num(2, 10)}
RegressionValues == {NaN, 0, Num(2, 10), Num(25, 100)}
Environments ==
    { [NoEnvironment EXCEPT !.calculator = c, !.model = m] :
        c \in {"undefined", "throws"}, m \in {"undefined", "function"} }
    \cup
    { [calculator |-> "returns", model |-> m,
       result |-> [success |-> ok, ke0_numerical |-> kn, ke0_regression |-> kr]] :
        m \in {"undefined", "function"}, ok \in BOOLEAN,
        kn \in NumericalValues, kr \in RegressionValues }

InitPK ==
    /\ lsodaSolver = NullObj
    /\ call = IdleCall
    /\ result = NullObj
    /\ NoPage
    /\ pkCall \in
          { [pc |-> "called", script |-> "main", patient |-> p, env |-> NoEnvironment,
             calls |-> 0] : p \in Patients }
          \cup
          { [pc |-> "called", script |-> "enhanced", patient |-> p, env |-> e,
             calls |-> 0] : p \in Patients, e \in Environments }
    /\ pkResult = NullObj

\* PKCalculator.calculatePKParameters(patient) of main.js runs and returns
CalculatePKParametersMain ==
    /\ pkCall.pc = "called"
    /\ pkCall.script = "main"
    /\ pkResult' = [outcome |-> "returned",
                    value |-> calculatePKParametersMain(pkCall.patient),
                    path |-> "formula",
                    console |-> <<>>]
    /\ pkCall' = [pkCall EXCEPT !.pc = "done", !.calls = @ + 1,
                                !.patient = patientAfterCalculate(pkCall.patient)]
    /\ UNCHANGED <<lsodaVars, appVars>>

\* PKCalculator.calculatePKParameters(patient) of enhanced-main.js runs and returns
CalculatePKParametersEnhanced ==
    /\ pkCall.pc = "called"
    /\ pkCall.script = "enhanced"
    /\ LET k == calculateKe0Enhanced(pkCall.patient, pkCall.env)
       IN pkResult' = [outcome |-> "returned",
                       value |-> calculatePKParametersEnhanced(pkCall.patient, pkCall.env),
                       path |-> k.path,
                       console |-> <<k.log>>]
    /\ pkCall' = [pkCall EXCEPT !.pc = "done", !.calls = @ + 1,
                                !.patient = patientAfterCalculate(pkCall.patient)]
    /\ UNCHANGED <<lsodaVars, appVars>>

\* the caller calls calculatePKParameters again with the same Patient object, as
\* start() does for every run (main.js line 136, enhanced-main.js line 330)
CalculateAgain ==
    /\ pkCall.pc = "done"
    /\ pkCall.calls < MaxCalls
    /\ pkCall' = [pkCall EXCEPT !.pc = "called"]
    /\ UNCHANGED <<pkResult, lsodaVars, appVars>>

NextPK ==
    \/ CalculatePKParametersMain
    \/ CalculatePKParametersEnhanced
    \/ CalculateAgain

SpecPK == InitPK /\ [][NextPK]_vars

----------------------------------------------------------------------------
(* SpecLSODA: one LSODA object driven by a caller, one phase of step(f) per  *)
(* transition.                                                              *)

\* what the caller passes: right-hand side, initial conditions, interval, options
\* (0 = option not given)
SpanLong == 50
CoarseOptions == [NoOptions EXCEPT !.atol = TolScale]
OracleRhs == [NoRhs EXCEPT !.kind = "oracle", !.answers = <<<<0>>, <<0>>, <<0>>>>]
Wave == [NoRhs EXCEPT !.kind = "forcing", !.half = TU \div 2, !.amp = VU \div 2]
\* values an oracle returns
FVals == {<<0>>, <<VU \div 4>>, <<-VU>>}
Decay == [NoRhs EXCEPT !.kind = "decay"]
OracleMaxstep == 3
WaveMaxstep == 41

Call(rhs, y0, t0, tfinal, options) ==
    [rhs |-> rhs, y0 |-> y0, t0 |-> t0, tfinal |-> tfinal, options |-> options]

Calls ==
    { \* any right-hand side, a few steps
      Call(OracleRhs, <<VU>>, 0, SpanLong * TU,
           [CoarseOptions EXCEPT !.maxstep = OracleMaxstep]),
      \* 20 small steps, then growth: the step size at the 20th step is below 1
      Call([Wave EXCEPT !.waveUntil = (49 * TU) \div 4], <<VU>>, 0, SpanLong * TU,
           [CoarseOptions EXCEPT !.maxstep = WaveMaxstep]),
      \* the step size at the 20th step is between 1 and 10
      Call([Wave EXCEPT !.waveUntil = (33 * TU) \div 4], <<VU>>, 0, SpanLong * TU,
           [CoarseOptions EXCEPT !.maxstep = WaveMaxstep]),
      \* above 10 at the 20th step, below 1 at the 40th
      Call([Wave EXCEPT !.waveUntil = (29 * TU) \div 4, !.midUntil = 39 * TU, !.tail = VU],
           <<VU>>, 0, SpanLong * TU, [CoarseOptions EXCEPT !.maxstep = WaveMaxstep]),
      \* above 10 at the 20th step, between 1 and 10 at the 40th
      Call([Wave EXCEPT !.waveUntil = (29 * TU) \div 4, !.midUntil = 39 * TU,
                        !.tail = VU \div 4],
           <<VU>>, 0, SpanLong * TU, [CoarseOptions EXCEPT !.maxstep = WaveMaxstep]),
      \* a right-hand side too large for the minimum step
      Call([Wave EXCEPT !.tail = 4 * VU], <<VU>>, 0, SpanLong * TU,
           [CoarseOptions EXCEPT !.hmin = TU \div 4]),
      \* a history the right-hand side stops matching
      Call([Wave EXCEPT !.midUntil = 10 * TU, !.mid = VU \div 4], <<VU>>, 0, SpanLong * TU,
           CoarseOptions),
      \* the engine's call: one tick, its tolerances
      Call([Decay EXCEPT !.lambda = (7 * Milli) \div 10], <<12 * VU>>, 0, Tick, EngineOptions),
      \* two consecutive ticks of a state that does not change
      Call(Decay, <<12 * VU>>, 0, Tick, EngineOptions),
      Call(Decay, <<12 * VU>>, Tick, 2 * Tick, EngineOptions),
      \* no options at all
      Call(Decay, <<0>>, 0, SpanLong * TU, NoOptions),
      \* any right-hand side with values large enough to fail convergence at every
      \* step size of one call of step, the default tolerances
      Call([OracleRhs EXCEPT !.amp = 64 * VU], <<VU>>, 0, 4 * SpanLong * TU,
           [NoOptions EXCEPT !.maxstep = 1]),
      \* an interval given backwards
      Call(Decay, <<VU>>, TU, 0, [NoOptions EXCEPT !.maxstep = OracleMaxstep]) }

InitLSODA ==
    /\ lsodaSolver = NewLSODA
    /\ call = IdleCall
    /\ result = NullObj
    /\ pkCall = IdlePKCall
    /\ pkResult = NullObj
    /\ NoPage

\* solve(f, y0, t0, tfinal, options) is called
Solve(c) ==
    /\ call.pc = "idle"
    /\ LET s == solveInit(lsodaSolver, c.rhs, c.y0, c.t0, c.tfinal, c.options)
       IN /\ lsodaSolver' = s.o
          /\ call' = s.f
    /\ result' = NullObj
    /\ UNCHANGED <<pkVars, appVars>>

\* the while test of solve and the entry of step(f)
LoopTest ==
    /\ call.pc = "loop"
    /\ IF loopCond(lsodaSolver, call)
       THEN LET s == enterStep(lsodaSolver, call)
            IN lsodaSolver' = s.o /\ call' = s.f
       ELSE /\ call' = [call EXCEPT !.pc = "return", !.stop = "tfinal"]
            /\ UNCHANGED lsodaSolver
    /\ UNCHANGED <<result, pkVars, appVars>>

\* the values an oracle may return, -amp among them where amp is set; any other
\* right-hand side is computed
Answers(rhs) ==
    IF rhs.kind # "oracle" THEN {<<0>>}
    ELSE IF rhs.amp = 0 THEN FVals
    ELSE {<<0>>, <<VU \div 4>>, <<-rhs.amp>>}

\* the model follows a step while its step size is above the resolution
Predict ==
    /\ call.pc = "predict"
    /\ lsodaSolver.h # 0
    /\ lsodaSolver' = predict(lsodaSolver)
    /\ call' = [call EXCEPT !.pc = "evaluate"]
    /\ UNCHANGED <<result, pkVars, appVars>>

Evaluate ==
    /\ call.pc = "evaluate"
    /\ \E f1 \in Answers(call.rhs) :
          LET rhs == [call.rhs EXCEPT !.answers = <<f1, f1, f1>>]
          IN /\ lsodaSolver' = evaluate(lsodaSolver, rhs)
             /\ call' = [call EXCEPT !.pc = "correct", !.rhs = rhs]
    /\ UNCHANGED <<result, pkVars, appVars>>

Correct ==
    /\ call.pc = "correct"
    /\ \E f2 \in Answers(call.rhs), f3 \in Answers(call.rhs) :
          LET rhs == [call.rhs EXCEPT !.answers = <<call.rhs.answers[1], f2, f3>>]
              c == correct(lsodaSolver, [call EXCEPT !.rhs = rhs], rhs)
          IN /\ lsodaSolver' = c.o
             /\ call' = [c.f EXCEPT !.pc = IF c.f.kflag = 0 THEN "accept" ELSE "reject"]
    /\ UNCHANGED <<result, pkVars, appVars>>

Accept ==
    /\ call.pc = "accept"
    /\ LET o1 == acceptStep(lsodaSolver)
           f1 == storeSolution(o1, call)
       IN /\ lsodaSolver' = o1
          /\ call' = IF o1.meth = lsodaSolver.meth THEN f1
                     ELSE [f1 EXCEPT !.switches = Append(call.switches, o1.nst)]
    /\ UNCHANGED <<result, pkVars, appVars>>

Reject ==
    /\ call.pc = "reject"
    /\ LET r == rejectStep(lsodaSolver, call)
       IN /\ lsodaSolver' = r.o
          /\ call' = IF r.f.stepResult.success
                     THEN [r.f EXCEPT !.pc = "predict"]
                     ELSE [r.f EXCEPT !.pc = "return", !.stop = "step"]
    /\ UNCHANGED <<result, pkVars, appVars>>

Return ==
    /\ call.pc = "return"
    /\ result' = solveResult(lsodaSolver, call)
    /\ call' = [call EXCEPT !.pc = "idle"]
    /\ UNCHANGED <<lsodaSolver, pkVars, appVars>>

NextLSODA ==
    \/ \E c \in Calls : Solve(c)
    \/ LoopTest
    \/ Predict
    \/ Evaluate
    \/ Correct
    \/ Accept
    \/ Reject
    \/ Return

SpecLSODA == InitLSODA /\ [][NextLSODA]_vars

----------------------------------------------------------------------------
(* Spec: a loaded page, its controller (UIController of main.js or          *)
(* EnhancedUIController of enhanced-main.js), the controller's simulator    *)
(* and the user.  The document is that of index.html.  A control is used    *)
(* while it is shown: the buttons of the main screen while the main screen  *)
(* is active and the patient modal, which covers it, is not; the modal's    *)
(* controls while the modal is active.  The value of a slider is a decimal  *)
(* string, held as its number of tenths.  The controller's display timer    *)
(* (100 ms) writes text to the document only and is not an action.          *)
(* Spec is the page of main.js as it is shipped, with every action of the   *)
(* user, and the two pages that only change screens: index.html with        *)
(* main-simple.js and test.html; SpecRun is one of the four pages after the *)
(* user has chosen patient and doses, with the actions that start, advance  *)
(* and stop a run.  The status text of test.html is held in English.        *)

\* ticks of the simulation timer and snapshots of a behaviour
MaxTicks == 2
MaxSnapshots == 1

\* values the user gives the sliders modal-age and modal-weight (years, kg), and
\* bolus-dose and continuous-dose (mg/kg, mg/kg/hr), in tenths
SliderValues ==
    [age |-> {500, 840}, weight |-> {700, 2000}, bolusDose |-> {0, 120}, continuousDose |-> {0, 10}]

\* parseFloat(value) and parseInt(value) of a slider's value
parseFloat(value) == Num(value, 10)
parseInt(value) == Num(value \div 10, 1)
\* element.value = x for a slider whose steps are multiples of 0.1
sliderValue(x) == x \div (One \div 10)

\* The pages: main.js with useLSODA as line 127 sets it and with the flag set, and
\* enhanced-main.js with desolve.js loaded and not.  lsoda.js and ke0-masui.js are
\* loaded, masui-ke0-exact.js is not.
Pages ==
    { [script |-> "main", useLSODA |-> u, useExternalDeSolve |-> FALSE,
       env |-> NoEnvironment] : u \in BOOLEAN }
    \cup
    { [script |-> "enhanced", useLSODA |-> FALSE, useExternalDeSolve |-> d,
       env |-> [NoEnvironment EXCEPT !.model = "function"]] : d \in BOOLEAN }

\* no run yet
NoRun ==
    [covariates |-> NullObj, path |-> "none", before |-> ZeroState, solve |-> "none",
     integrated |-> 0]

\* main.js as shipped
ShippedPage ==
    [script |-> "main", useLSODA |-> FALSE, useExternalDeSolve |-> FALSE, env |-> NoEnvironment]

\* the document of index.html with main-simple.js, and test.html with its own script
SimplePage == [ShippedPage EXCEPT !.script = "main-simple"]
TestPage == [ShippedPage EXCEPT !.script = "test"]

\* The two screens of a document: disclaimer-screen and main-screen of index.html,
\* test-screen-1 and test-screen-2 of test.html.  An element is its class list and
\* the display of its style attribute ("" where the attribute sets none).
InitialScreens(doc) ==
    IF doc.script = "test"
    THEN [disclaimer |-> [classList |-> {}, display |-> ""],
          main |-> [classList |-> {"hidden"}, display |-> ""]]
    ELSE [disclaimer |-> [classList |-> {"screen", "active"}, display |-> ""],
          main |-> [classList |-> {"screen"}, display |-> ""]]

\* the display a screen is rendered with.  test.html: .hidden { display: none }.
\* index.html with the stylesheet of the screens: .screen.active { display: flex
\* !important } before the style attribute, the style attribute before the rules
\* #disclaimer-screen { display: flex } and #main-screen { display: none }, and
\* these before .screen { display: none }.
computedDisplay(doc, id, element) ==
    IF doc.script = "test"
    THEN (IF "hidden" \in element.classList THEN "none" ELSE "block")
    ELSE IF {"screen", "active"} \subseteq element.classList THEN "flex"
    ELSE IF element.display # "" THEN element.display
    ELSE IF id = "disclaimer" THEN "flex"
    ELSE "none"

\* a screen is rendered
Displayed(doc, screens, id) == computedDisplay(doc, id, screens[id]) # "none"

\* showMainScreen() of UIController (main.js), of SimpleUIController
\* (main-simple.js) and of EnhancedUIController (enhanced-main.js), and the click
\* handler of test-agree-button
showMainScreen(script, screens) ==
    CASE script = "main" ->
           [screens EXCEPT !.disclaimer.classList = @ \ {"active"},
                           !.main.classList = @ \cup {"active"}]
      [] script \in {"main-simple", "enhanced"} ->
           [screens EXCEPT !.disclaimer.classList = @ \ {"active"},
                           !.disclaimer.display = "none",
                           !.main.classList = @ \cup {"active"},
                           !.main.display = "flex"]
      [] script = "test" ->
           [screens EXCEPT !.disclaimer.classList = @ \cup {"hidden"},
                           !.main.classList = @ \ {"hidden"}]

\* the click handler of test-back-button
showFirstScreen(screens) ==
    [screens EXCEPT !.main.classList = @ \cup {"hidden"},
                    !.disclaimer.classList = @ \ {"hidden"}]

\* the constructor of the controller on the document of index.html
Init ==
    /\ page \in {ShippedPage, SimplePage, TestPage}
    /\ clock = 0
    /\ ui = [ patient |-> DefaultPatient,
              screens |-> InitialScreens(page),
              status |-> IF page.script = "test" THEN "initialised" ELSE "",
              modal |-> [active |-> FALSE, age |-> 500, weight |-> 700, height |-> 1700,
                         sex |-> "male", asa |-> "1-2"],
              bolusDose |-> 120, continuousDose |-> 10,
              startHidden |-> FALSE, stopHidden |-> TRUE, snapshotHidden |-> TRUE,
              uiUpdateTimer |-> NullObj ]
    /\ engine = NewEngine(page.useLSODA)
    /\ lsodaSolver = NullObj
    /\ call = IdleCall
    /\ result = NullObj
    /\ pkCall = IdlePKCall
    /\ pkResult = NullObj
    /\ run = NoRun

\* click on agree-button (test-agree-button), which the first screen holds:
\* showMainScreen(), in test.html with the status text
ShowMainScreen ==
    /\ Displayed(page, ui.screens, "disclaimer")
    /\ ~ui.modal.active
    /\ ui' = [ui EXCEPT !.screens = showMainScreen(page.script, ui.screens),
                        !.status = IF page.script = "test" THEN "switched to screen 2"
                                   ELSE @]
    /\ UNCHANGED <<lsodaVars, pkVars, page, clock, engine, run>>

\* click on test-back-button of test.html, which the second screen holds
ShowFirstScreen ==
    /\ page.script = "test"
    /\ Displayed(page, ui.screens, "main")
    /\ ui' = [ui EXCEPT !.screens = showFirstScreen(ui.screens),
                        !.status = "back on screen 1"]
    /\ UNCHANGED <<lsodaVars, pkVars, page, clock, engine, run>>

\* the controls of the main screen of a simulator page can be used
MainScreenShown ==
    /\ page.script \in {"main", "enhanced"}
    /\ Displayed(page, ui.screens, "main")
    /\ ~ui.modal.active

\* click on edit-patient-btn: showPatientModal()
ShowPatientModal ==
    /\ MainScreenShown
    /\ ui' = [ui EXCEPT !.modal = [active |-> TRUE,
                                   age |-> sliderValue(ui.patient.age),
                                   weight |-> sliderValue(ui.patient.weight),
                                   height |-> sliderValue(ui.patient.height),
                                   sex |-> ui.patient.sex,
                                   asa |-> ui.patient.asaPS]]
    /\ UNCHANGED <<lsodaVars, pkVars, page, clock, engine, run>>

\* click on close-modal, on cancel-modal or outside the modal: hidePatientModal()
HidePatientModal ==
    /\ ui.modal.active
    /\ ui' = [ui EXCEPT !.modal.active = FALSE]
    /\ UNCHANGED <<lsodaVars, pkVars, page, clock, engine, run>>

\* the user moves modal-weight
ModalInput ==
    /\ ui.modal.active
    /\ \E f \in {"weight"} : \E v \in SliderValues[f] :
          /\ v # ui.modal[f]
          /\ ui' = [ui EXCEPT !.modal[f] = v]
    /\ UNCHANGED <<lsodaVars, pkVars, page, clock, engine, run>>

\* click on save-modal: savePatientData() of both controllers
SavePatientData ==
    /\ ui.modal.active
    /\ ui' = [ui EXCEPT !.patient = [age |-> parseInt(ui.modal.age),
                                     weight |-> parseFloat(ui.modal.weight),
                                     height |-> parseFloat(ui.modal.height),
                                     sex |-> ui.modal.sex,
                                     asaPS |-> ui.modal.asa],
                        !.modal.active = FALSE]
    /\ UNCHANGED <<lsodaVars, pkVars, page, clock, engine, run>>

\* the user moves bolus-dose or continuous-dose
DoseInput ==
    /\ MainScreenShown
    /\ \E f \in {"bolusDose", "continuousDose"} : \E v \in SliderValues[f] :
          /\ v # ui[f]
          /\ ui' = [ui EXCEPT ![f] = v]
    /\ UNCHANGED <<lsodaVars, pkVars, page, clock, engine, run>>

\* click on start-simulation: startSimulation() of both controllers.  start()
\* of SimulationEngine creates the solver where useLSODA is set (lines 146-151).
StartSimulation ==
    /\ MainScreenShown
    /\ ~ui.startHidden
    /\ LET bolusDose == parseFloat(ui.bolusDose)
           continuousDose == parseFloat(ui.continuousDose)
       IN engine' = IF page.script = "main"
                    THEN startMain(engine, ui.patient, bolusDose, continuousDose, clock)
                    ELSE startEnhanced(engine, ui.patient, page.env, bolusDose,
                                       continuousDose, clock)
    /\ lsodaSolver' = IF page.script = "main" /\ ~engine.isRunning /\ engine.useLSODA
                      THEN createPKSolver ELSE lsodaSolver
    /\ run' = IF engine.isRunning THEN run
              ELSE [covariates |-> ui.patient, path |-> "none", before |-> engine'.state,
                    solve |-> "none", integrated |-> 0]
    /\ ui' = [ui EXCEPT !.startHidden = TRUE, !.stopHidden = FALSE,
                        !.snapshotHidden = FALSE, !.uiUpdateTimer = [interval |-> 100]]
    /\ UNCHANGED <<call, result, pkVars, page, clock>>

\* click on stop-simulation: stopSimulation() of both controllers
StopSimulation ==
    /\ MainScreenShown
    /\ ~ui.stopHidden
    /\ engine' = stop(engine)
    /\ ui' = [ui EXCEPT !.startHidden = FALSE, !.stopHidden = TRUE,
                        !.snapshotHidden = TRUE, !.uiUpdateTimer = NullObj]
    /\ UNCHANGED <<lsodaVars, pkVars, page, clock, run>>

\* click on take-snapshot: takeSnapshot() of both controllers
TakeSnapshot ==
    /\ MainScreenShown
    /\ ~ui.snapshotHidden
    /\ Len(engine.snapshots) < MaxSnapshots
    /\ engine' = takeSnapshot(engine, clock)
    /\ UNCHANGED <<lsodaVars, pkVars, page, clock, ui, run>>

\* the page after a call of updateSimulation() that returned u; run.integrated is
\* the sum, over the ticks of the run whose solution was applied to the state, of
\* the time the solution was integrated over
Ticked(u) ==
    /\ engine' = u.engine
    /\ lsodaSolver' = IF page.script = "main" THEN u.solver ELSE lsodaSolver
    /\ result' = u.result
    /\ run' = [run EXCEPT !.path = u.path, !.before = engine.state,
                          !.solve = IF u.path \in {"none", "Euler"} THEN "none"
                                    ELSE IF u.path = "LSODA"
                                    THEN (IF u.result.t.len > 1 THEN "advanced" ELSE "stuck")
                                    ELSE (IF u.result.len > 1 THEN "advanced" ELSE "stuck"),
                          !.integrated = IF u.path \in {"deSolve", "fallback"}
                                            /\ u.result.len > 1
                                         THEN @ + u.result.integrated ELSE @]

\* the simulation timer fires, one period after the start or the last tick:
\* updateSimulation() of the page's engine
TimerFires ==
    /\ engine.timer # NullObj
    /\ clock < MaxTicks * TimerPeriod
    /\ clock' = clock + engine.timer.interval
    /\ Ticked(IF page.script = "main"
              THEN updateSimulationMain(engine, lsodaSolver, ui.patient,
                                        clock + engine.timer.interval)
              ELSE updateSimulationEnhanced(engine, page.useExternalDeSolve, ui.patient,
                                            clock + engine.timer.interval))
    /\ UNCHANGED <<call, pkVars, page, ui>>

Next ==
    \/ ShowMainScreen
    \/ ShowFirstScreen
    \/ ShowPatientModal
    \/ HidePatientModal
    \/ ModalInput
    \/ SavePatientData
    \/ DoseInput
    \/ StartSimulation
    \/ StopSimulation
    \/ TakeSnapshot
    \/ TimerFires

Spec == Init /\ [][Next]_vars

\* a page whose user has agreed, saved a patient and set the dose sliders
InitRun ==
    /\ page \in Pages
    /\ clock = 0
    /\ \E a \in SliderValues.age, w \in SliderValues.weight,
          b \in SliderValues.bolusDose, c \in SliderValues.continuousDose :
          ui = [ patient |-> [DefaultPatient EXCEPT !.age = parseInt(a),
                                                    !.weight = parseFloat(w)],
                 screens |-> showMainScreen(page.script, InitialScreens(page)),
                 status |-> "",
                 modal |-> [active |-> FALSE, age |-> a, weight |-> w, height |-> 1700,
                            sex |-> "male", asa |-> "1-2"],
                 bolusDose |-> b, continuousDose |-> c,
                 startHidden |-> FALSE, stopHidden |-> TRUE, snapshotHidden |-> TRUE,
                 uiUpdateTimer |-> NullObj ]
    /\ engine = NewEngine(page.useLSODA)
    /\ lsodaSolver = NullObj
    /\ call = IdleCall
    /\ result = NullObj
    /\ pkCall = IdlePKCall
    /\ pkResult = NullObj
    /\ run = NoRun

NextRun ==
    \/ StartSimulation
    \/ StopSimulation
    \/ TimerFires

SpecRun == InitRun /\ [][NextRun]_vars

----------------------------------------------------------------------------
(* Properties of LSODA.solve and LSODA.step (SpecLSODA)                     *)

RECURSIVE Pow2(_)
Pow2(k) == IF k = 0 THEN 1 ELSE 2 * Pow2(k - 1)

InStep == call.pc \in {"predict", "evaluate", "correct", "accept", "reject"}

\* C6: an attempt of step(f) is accepted exactly when the corrector converged
\* (correction norm below 0.33 within at most 3 passes) and the weighted error
\* norm is at most 1.0; and inside one step, after k rejected attempts that are
\* retried, h is the h the step started with divided by 2^k.
C6_AcceptanceAndHalving ==
    /\ call.pc = "accept" =>
          /\ call.converged
          /\ call.correction_norm < ConvergenceThreshold
          /\ call.iters <= maxiter
          /\ call.error_norm <= Milli
    /\ call.pc = "reject" =>
          \/ ~call.converged /\ call.iters = maxiter
                             /\ call.correction_norm >= ConvergenceThreshold
          \/ call.converged /\ call.error_norm > Milli
    /\ InStep => lsodaSolver.h = TDiv(call.hstart, Pow2(call.ncf + call.nef))

\* an attempt accepted after two or more rejected attempts of the same step
C6_Witness ==
    /\ call.pc = "accept"
    /\ call.ncf + call.nef >= 2
    /\ lsodaSolver.h # call.hstart

\* C7: during a solve the method changes only in the transition that accepts a
\* step whose number nst is a multiple of 20: from Adams to BDF only if the
\* stiffness indicator exceeds 10, from BDF to Adams only if it is below 1, not at
\* all if it lies in [1, 10]; the switches of one solve are at least 20 accepted
\* steps apart.
C7_SwitchDiscipline ==
    [][ call.pc # "idle" =>
          LET indicator == estimateJacobianNorm(lsodaSolver')
              atCheck == call.pc = "accept" /\ lsodaSolver'.nst = lsodaSolver.nst + 1
                                            /\ lsodaSolver'.nst % 20 = 0
          IN /\ lsodaSolver'.meth # lsodaSolver.meth =>
                   /\ atCheck
                   /\ lsodaSolver.meth = ADAMS => indicator > 10 * TU
                   /\ lsodaSolver.meth = BDF => indicator < TU
             /\ (atCheck /\ indicator >= TU /\ indicator <= 10 * TU) =>
                   lsodaSolver'.meth = lsodaSolver.meth
             /\ \A i \in 1..Len(call'.switches), j \in 1..Len(call'.switches) :
                   i < j => call'.switches[j] - call'.switches[i] >= 20 ]_vars

\* a solve that has switched to BDF and back to Adams
C7_Witness ==
    /\ Len(call.switches) = 2
    /\ lsodaSolver.meth = ADAMS
    /\ lsodaSolver.nst = call.switches[2]

\* C8 as stated: the transition that changes the method during a solve also
\* resets or re-maps the history array yh, that is, yh is not what the accepted
\* step's regular update (updateNordsieck) leaves.
C8_HistoryRemappedOnSwitch ==
    [][ (call.pc = "accept" /\ lsodaSolver'.meth # lsodaSolver.meth) =>
          lsodaSolver'.yh #
             updateNordsieck([lsodaSolver EXCEPT !.nst = lsodaSolver.nst + 1,
                                                 !.t = lsodaSolver.t + lsodaSolver.h]).yh ]_vars

\* a solve that continues the previous, completed one: same right-hand side, from
\* the time and the solution the previous solve ended with
ContinuesPreviousSolve ==
    /\ call.pc = "idle"
    /\ call'.pc = "loop"
    /\ result # NullObj
    /\ call.stop = "tfinal"
    /\ call.rhs.kind # "oracle"
    /\ [call'.rhs EXCEPT !.answers = <<>>] = [call.rhs EXCEPT !.answers = <<>>]
    /\ call'.t_out.first = call.tfinal
    /\ call'.y_out.last = call.y_out.last

\* C9 as stated: the integrator's internal state (step size h, order nq, method,
\* history array yh, step and evaluation counters) persists from the solve of one
\* tick to the solve of the next: entering the next solve changes none of them.
C9_IntegratorStatePersists ==
    [][ ContinuesPreviousSolve =>
          /\ lsodaSolver'.h = lsodaSolver.h
          /\ lsodaSolver'.nq = lsodaSolver.nq
          /\ lsodaSolver'.meth = lsodaSolver.meth
          /\ lsodaSolver'.yh = lsodaSolver.yh
          /\ lsodaSolver'.nst = lsodaSolver.nst
          /\ lsodaSolver'.nfe = lsodaSolver.nfe ]_vars

\* C1 as stated: a solve that stopped before tfinal, because step(f) failed or
\* maxstep was reached, hands its caller something that tells it so: an object of
\* another shape than the one a completed solve returns.
C1_FailureSurfaced ==
    (call.pc = "idle" /\ result # NullObj /\ call.stop \in {"step", "maxstep"}) =>
        \/ "error" \in DOMAIN result
        \/ "success" \in DOMAIN result
        \/ DOMAIN result # {"t", "y", "stats"}

----------------------------------------------------------------------------
(* Properties of PKCalculator (SpecPK)                                      *)

PKDone == pkCall.pc = "done"
RateFields == {"v1", "v2", "v3", "cl", "q2", "q3", "k10", "k12", "k21", "k13", "k31"}

\* C3 as stated: calculatePKParameters called with a weight or a height that is
\* not positive yields an InvalidCovariate outcome, and never returns parameters
\* with a negative, zero or NaN volume, clearance or rate constant.
C3_InvalidCovariateRejected ==
    (PKDone /\ (~Gt0(pkCall.patient.weight) \/ ~Gt0(pkCall.patient.height))) =>
        /\ pkResult.outcome = "InvalidCovariate"
        /\ ~(/\ pkResult.outcome = "returned"
             /\ \E f \in RateFields : ~Gt0(pkResult.value[f]))

\* the producing method the contract distinguishes
Ke0Method(path) ==
    IF path \in {"numerical", "regression"} THEN path ELSE "fallback"

\* C4 as stated: what the caller of calculatePKParameters (enhanced-main.js)
\* receives indicates which method produced its ke0: no other page environment
\* hands the caller the same object with a ke0 produced by another method.
C4_Ke0PathIndicated ==
    (PKDone /\ pkCall.script = "enhanced") =>
        \A e \in Environments :
            calculatePKParametersEnhanced(pkCall.patient, e) = pkResult.value =>
                Ke0Method(calculateKe0Enhanced(pkCall.patient, e).path)
                    = Ke0Method(pkResult.path)

\* C5: calculateKe0 of enhanced-main.js returns ke0_numerical whenever
\* calculateKe0Complete returned with success and a non-null positive numerical
\* value; ke0_regression exactly when it returned with success, the numerical
\* value is absent and the regression value is positive; and the value of a
\* fallback model (MasuiKe0Model if defined, else the simplified formula) exactly
\* in all other cases, the simplified formula after an exception.  One return
\* statement is taken and a value is returned.
C5_Ke0Priority ==
    (PKDone /\ pkCall.script = "enhanced") =>
        LET env == pkCall.env
            r == env.result
            usable == env.calculator = "returns" /\ r.success
            numerical == usable /\ r.ke0_numerical # JSNull /\ Gt0(r.ke0_numerical)
            regression == usable /\ ~numerical /\ Gt0(r.ke0_regression)
            ke0 == pkResult.value.ke0
        IN /\ pkResult.outcome = "returned"
           /\ Len(pkResult.console) = 1
           /\ pkResult.path \in {"numerical", "regression", "model", "simplified", "catch"}
           /\ numerical <=> pkResult.path = "numerical"
           /\ numerical => ke0 = r.ke0_numerical
           /\ regression <=> pkResult.path = "regression"
           /\ regression => ke0 = r.ke0_regression
           /\ pkResult.path = "catch" <=> env.calculator = "throws"
           /\ pkResult.path = "model" =>
                 /\ env.model # "undefined"
                 /\ ke0 = MasuiKe0ModelCalculateKe0(pkCall.patient)
           /\ pkResult.path = "simplified" => env.model = "undefined"
           /\ pkResult.path \in {"simplified", "catch"} =>
                 ke0 = calculateKe0Simplified(pkCall.patient)

\* calculateKe0Complete succeeded without a numerical value and with a positive
\* regression value, which differs from what the fallback models give
C5_Witness ==
    /\ PKDone
    /\ pkCall.script = "enhanced"
    /\ pkCall.env.calculator = "returns"
    /\ pkCall.env.result.success
    /\ pkCall.env.result.ke0_numerical = JSNull
    /\ pkCall.env.model = "function"
    /\ pkResult.path = "regression"
    /\ pkResult.value.ke0 = pkCall.env.result.ke0_regression
    /\ pkResult.value.ke0 # MasuiKe0ModelCalculateKe0(pkCall.patient)

----------------------------------------------------------------------------
(* Properties of the simulation engines (SpecRun) and of the page (Spec)    *)

\* x >= 0 of JavaScript: false for NaN
NonNegative(x) == x # NaN /\ x >= 0

\* the Patient object this.patient refers to
PatientOf(e) == ui.patient

\* PKCalculator.calculatePKParameters of the page's script
ParametersOf(patient) ==
    IF page.script = "main" THEN calculatePKParametersMain(patient)
    ELSE calculatePKParametersEnhanced(patient, page.env)

\* C2: in a run started with bolusDose >= 0 and continuousDose >= 0, the state
\* components a1, a2, a3 and ce of the engine are >= 0 in every state, whichever
\* path performed the ticks, and a tick whose solver made no progress leaves the
\* state as it was before the tick.
C2_StateNonNegative ==
    (NonNegative(engine.bolusDose) /\ NonNegative(engine.continuousDose)) =>
        /\ NonNegative(engine.state.a1)
        /\ NonNegative(engine.state.a2)
        /\ NonNegative(engine.state.a3)
        /\ NonNegative(engine.state.ce)
        /\ (run.solve = "stuck" => engine.state = run.before)

\* a tick of a solver has advanced a run with a bolus and an infusion
C2_Witness ==
    /\ engine.isRunning
    /\ engine.bolusDose > 0
    /\ engine.continuousDose > 0
    /\ run.solve = "advanced"
    /\ engine.state # run.before
    /\ engine.state.ce > 0

\* C10: while a simulation runs, the covariates its ticks read are those start()
\* was given, and pkParams are the parameters derived from them: no action of the
\* user on the patient modal changes them.
C10_CovariatesImmutable ==
    engine.isRunning =>
        /\ PatientOf(engine) = run.covariates
        /\ engine.pkParams = ParametersOf(PatientOf(engine))

\* C11: a tick of SimulationEngine whose LSODA integration fails (the result of
\* solve holds no point after the start of the tick) is advanced by
\* updateSimulationEuler instead, and useLSODA is false from then on.
C11_FallbackOnFailure ==
    (page.script = "main" /\ run.solve = "stuck") =>
        /\ ~engine.useLSODA
        /\ engine.state = updateSimulationEuler([engine EXCEPT !.state = run.before],
                                                PatientOf(engine)).state

\* the maximum order of a method
maxorderOf(meth) == IF meth = ADAMS THEN maxorder_adams ELSE maxorder_bdf

\* C12: in every state of LSODA the order nq is at least 1 and at most the maximum
\* order of the active method; a solve that has accepted no step yet is at order 1
\* with the Adams method; and inside step(f) the row elco[meth][nq] that predict()
\* and correct() index is one of the rows 1 to 5 of the tables, with the entries
\* 0..nq they read.
C12_OrderWithinTables ==
    /\ lsodaSolver.nq >= 1
    /\ lsodaSolver.nq <= maxorderOf(lsodaSolver.meth)
    /\ (call.pc # "idle" /\ lsodaSolver.nst = 0) =>
          (lsodaSolver.nq = 1 /\ lsodaSolver.meth = ADAMS)
    /\ InStep => /\ lsodaSolver.nq \in 1..5
                 /\ Len(elco(lsodaSolver.meth, lsodaSolver.nq)) = lsodaSolver.nq + 1

\* predict() has run with the BDF method, after the solve switched to it
C12_Witness ==
    /\ call.pc = "evaluate"
    /\ lsodaSolver.meth = BDF
    /\ lsodaSolver.nst >= 20
    /\ lsodaSolver.nq = 1

\* the engine after a call of updateSimulation() one timer period from now
AfterCallback ==
    IF page.script = "main"
    THEN updateSimulationMain(engine, lsodaSolver, ui.patient, clock + TimerPeriod).engine
    ELSE updateSimulationEnhanced(engine, page.useExternalDeSolve, ui.patient,
                                  clock + TimerPeriod).engine

\* C13: a tick is one step of the page, so a stop falls between two ticks; once
\* stop() has returned and until the next start(), the engine is not running, no
\* timer is left to call updateSimulation(), and a callback that fires all the same
\* leaves state, elapsedTime, snapshots and every other field of the engine as
\* they are.
C13_StopIsFinal ==
    ui.stopHidden =>
        /\ ~engine.isRunning
        /\ engine.timer = NullObj
        /\ AfterCallback = engine

\* a run that was stopped after a tick had advanced it
C13_Witness ==
    /\ ui.stopHidden
    /\ engine.startTime # NullObj
    /\ engine.elapsedTime > 0
    /\ engine.state # [a1 |-> engine.bolusDose, a2 |-> 0, a3 |-> 0, ce |-> 0]

----------------------------------------------------------------------------
(* SpecTwo: two engines of one script on one page, constructed by a caller   *)
(* that starts, ticks and stops each of them with its own Patient object and *)
(* doses.  Here engine, lsodaSolver and clock are pairs, one entry for each  *)
(* engine (clock[i] is the time of the last event of engine i's timer, the   *)
(* two timers interleave in any order); ui holds the caller's arguments; and *)
(* result is what both engines share besides constants: the global instance  *)
(* deSolve of desolve.js where it is loaded, which every                     *)
(* EnhancedSimulationEngine stores in this.solver.  An LSODA object is       *)
(* created by each start(), a SimpleDeSolveODE by each constructor.          *)

Engines == {1, 2}

\* new DeSolve(): the fields of the instance (its method objects have none that
\* solve assigns)
NewDeSolve ==
    [defaultMethod |-> "rkf45", rtol |-> Rtol1e6, atol |-> Atol1e12, hmax |-> PosInf,
     hmin |-> 0, maxsteps |-> maxsteps]

\* DeSolve.ode that stores the options of the call in the instance
odeKeepingOptions(d, method) == [d EXCEPT !.defaultMethod = method, !.hmax = 1]

\* the instance d after d.ode(func, y0, times, method, params): ode and
\* RKF45Method.solve assign to locals only
odeInstance(d, method) == d

\* the arguments the caller gives engine 1 and engine 2: another patient or other
\* doses for engine 2
TwoArguments ==
    LET first == [patient |-> DefaultPatient, bolusDose |-> parseFloat(120),
                  continuousDose |-> parseFloat(10)]
        others == { [patient |-> [DefaultPatient EXCEPT !.age = parseInt(a),
                                                        !.weight = parseFloat(w)],
                     bolusDose |-> parseFloat(b), continuousDose |-> parseFloat(c)] :
                    a \in SliderValues.age, w \in SliderValues.weight,
                    b \in SliderValues.bolusDose, c \in SliderValues.continuousDose }
    IN { [patient |-> <<first.patient, o.patient>>,
          bolusDose |-> <<first.bolusDose, o.bolusDose>>,
          continuousDose |-> <<first.continuousDose, o.continuousDose>>] :
         o \in others \ {first} }

InitTwo ==
    /\ page \in Pages
    /\ clock = <<0, 0>>
    /\ ui \in TwoArguments
    /\ engine = <<NewEngine(page.useLSODA), NewEngine(page.useLSODA)>>
    /\ lsodaSolver = <<NullObj, NullObj>>
    /\ result = IF page.useExternalDeSolve THEN NewDeSolve ELSE NullObj
    /\ run = NoRun
    /\ call = IdleCall
    /\ pkCall = IdlePKCall
    /\ pkResult = NullObj

\* start(patient, bolusDose, continuousDose) of engine i; the caller starts each
\* engine once
StartEngine(i) ==
    /\ ~engine[i].isRunning
    /\ engine[i].startTime = NullObj
    /\ engine' = [engine EXCEPT ![i] =
                    IF page.script = "main"
                    THEN startMain(engine[i], ui.patient[i], ui.bolusDose[i],
                                   ui.continuousDose[i], clock[i])
                    ELSE startEnhanced(engine[i], ui.patient[i], page.env, ui.bolusDose[i],
                                       ui.continuousDose[i], clock[i])]
    /\ lsodaSolver' = [lsodaSolver EXCEPT ![i] =
                         IF page.script = "main" /\ engine[i].useLSODA
                         THEN createPKSolver ELSE lsodaSolver[i]]
    /\ UNCHANGED <<call, result, pkVars, page, clock, ui, run>>

\* engine i and its solver after a call of updateSimulation() that returned u, and
\* the shared instance after the call of ode, if there was one
TickedEngine(i, u) ==
    /\ engine' = [engine EXCEPT ![i] = u.engine]
    /\ lsodaSolver' = [lsodaSolver EXCEPT ![i] = IF page.script = "main" THEN u.solver
                                                 ELSE lsodaSolver[i]]
    /\ result' = IF u.path = "deSolve" THEN odeInstance(result, "rkf45") ELSE result

\* the timer of engine i fires
TickEngine(i) ==
    /\ engine[i].timer # NullObj
    /\ clock[i] < MaxTicks * TimerPeriod
    /\ clock' = [clock EXCEPT ![i] = clock[i] + engine[i].timer.interval]
    /\ TickedEngine(i, IF page.script = "main"
                       THEN updateSimulationMain(engine[i], lsodaSolver[i], ui.patient[i],
                                                 clock[i] + engine[i].timer.interval)
                       ELSE updateSimulationEnhanced(engine[i], page.useExternalDeSolve,
                                                     ui.patient[i],
                                                     clock[i] + engine[i].timer.interval))
    /\ UNCHANGED <<call, pkVars, page, ui, run>>

\* stop() of engine i
StopEngine(i) ==
    /\ engine[i].isRunning
    /\ engine' = [engine EXCEPT ![i] = stop(engine[i])]
    /\ UNCHANGED <<lsodaVars, pkVars, page, clock, ui, run>>

NextTwo ==
    \/ \E i \in Engines : StartEngine(i)
    \/ \E i \in Engines : TickEngine(i)
    \/ \E i \in Engines : StopEngine(i)

SpecTwo == InitTwo /\ [][NextTwo]_vars

----------------------------------------------------------------------------
(* SpecDeSolve: a caller of the global instance deSolve of desolve.js calls  *)
(* deSolve.ode(odeSystem, y0, [t0, tend], method, params) with the name of a *)
(* method; call holds the arguments and result what the caller gets.  The    *)
(* caller names 'rkf45', 'dopri5' and 'lsoda', which all run                 *)
(* RKF45Method.solve with the options of the instance, and a name the        *)
(* instance has no method for.                                               *)

\* this.methods of DeSolve
methods == {"euler", "rk4", "rkf45", "dopri5", "lsoda"}

\* solver.solve(func, y0, times, options) for the methods built on
\* RKF45Method.solve: Dopri5Method calls super.solve, LSODAMethod a new
\* RKF45Method and then names itself in stats.method
methodSolve(method, y0, t0, tend, params) ==
    IF method = "lsoda"
    THEN [solution |-> ode(y0, t0, tend, params), method |-> "LSODA (Adams/BDF)"]
    ELSE [solution |-> ode(y0, t0, tend, params), method |-> "undefined"]

\* DeSolve.ode(func, y0, times, method, params): what the caller gets
odeOutcome(method, y0, t0, tend, params) ==
    IF method \notin methods
    THEN [outcome |-> "thrown", error |-> "Unknown method"]
    ELSE [outcome |-> "returned", value |-> methodSolve(method, y0, t0, tend, params)]

\* the calls of the caller
DeSolveCalls ==
    { [pc |-> "called", method |-> mt, y0 |-> <<b, a2, 0, 0>>, t0 |-> t0, tend |-> t0 + Tick,
       params |-> [pkParams |-> calculatePKParametersMain(p), patient |-> p,
                   continuousDose |-> c]] :
      mt \in {"rkf45", "dopri5", "lsoda", "bdf"},
      b \in {0, Num(12, 1)}, a2 \in {0, One}, t0 \in {0, Tick},
      p \in {DefaultPatient, [DefaultPatient EXCEPT !.age = Num(84, 1)]},
      c \in {0, One} }

InitDeSolve ==
    /\ call \in DeSolveCalls
    /\ result = NullObj
    /\ lsodaSolver = NullObj
    /\ pkCall = IdlePKCall
    /\ pkResult = NullObj
    /\ NoPage

\* the call runs to its end: ode returns or throws
Ode ==
    /\ call.pc = "called"
    /\ result' = odeOutcome(call.method, call.y0, call.t0, call.tend, call.params)
    /\ call' = [call EXCEPT !.pc = "done"]
    /\ UNCHANGED <<lsodaSolver, pkVars, appVars>>

NextDeSolve == Ode

SpecDeSolve == InitDeSolve /\ [][NextDeSolve]_vars

\* C16 as stated: no call of an entry point of the numeric engine ends with a
\* thrown exception: an unknown method, like every other error, reaches the caller
\* of DeSolve.ode as a returned value.
C16_NoExceptionCrossesBoundary ==
    call.pc = "done" => result.outcome = "returned"

----------------------------------------------------------------------------
(* SpecVHAC: the effect-site update of the Variable-step Hybrid Algorithm   *)
(* for Ce as the README states its selection logic, applied to one set of   *)
(* arguments.  call holds the arguments, result the rule taken and the new  *)
(* effect-site concentration.  slope is that of the linear interpolation of *)
(* the plasma concentration over the step.                                   *)

\* Math.abs(x) and a < b of numbers
FAbs(x) == IF x = NaN THEN NaN ELSE Abs(x)
FLt(a, b) == a # NaN /\ b # NaN /\ a < b

\* 1e-6 and 0.001
NegligibleChange == One \div 1000000
SmallStep == One \div 1000

\* the three rules
steadyState(Cp, Ce_prev, ke0, dt) ==
    FAdd(Cp, FMul(FAdd(Ce_prev, FNeg(Cp)), FExp(FNeg(FMul(ke0, dt)))))
taylor(Cp_prev, Ce_prev, ke0, dt, slope) ==
    FAdd(FAdd(Ce_prev, FMul(FMul(dt, ke0), FAdd(Cp_prev, FNeg(Ce_prev)))),
         FRat(FMul(FMul(FSquare(dt), ke0), slope), 1, 2))
linearPlasma(Cp_prev, Cp, Ce_prev, ke0, dt, slope) ==
    FAdd(FAdd(Cp, FMul(FAdd(FAdd(Ce_prev, FNeg(Cp_prev)), FDiv(slope, ke0)),
                       FExp(FNeg(FMul(ke0, dt))))),
         FNeg(FDiv(slope, ke0)))

\* the selection with the test of the small step first
vhacSmallStepFirst(Cp_prev, Cp_current, Ce_prev, ke0, dt) ==
    LET slope == FDiv(FAdd(Cp_current, FNeg(Cp_prev)), dt)
    IN IF FLt(FAbs(FMul(ke0, dt)), SmallStep)
       THEN [rule |-> "taylor", Ce |-> taylor(Cp_prev, Ce_prev, ke0, dt, slope)]
       ELSE IF FLt(FAbs(FAdd(Cp_current, FNeg(Cp_prev))), NegligibleChange)
       THEN [rule |-> "steady", Ce |-> steadyState(Cp_current, Ce_prev, ke0, dt)]
       ELSE [rule |-> "linear",
             Ce |-> linearPlasma(Cp_prev, Cp_current, Ce_prev, ke0, dt, slope)]

\* the selection logic: the rule taken and Ce
vhac(Cp_prev, Cp_current, Ce_prev, ke0, dt) ==
    LET slope == FDiv(FAdd(Cp_current, FNeg(Cp_prev)), dt)
    IN IF FLt(FAbs(FAdd(Cp_current, FNeg(Cp_prev))), NegligibleChange)
       THEN [rule |-> "steady", Ce |-> steadyState(Cp_current, Ce_prev, ke0, dt)]
       ELSE IF FLt(FAbs(FMul(ke0, dt)), SmallStep)
       THEN [rule |-> "taylor", Ce |-> taylor(Cp_prev, Ce_prev, ke0, dt, slope)]
       ELSE [rule |-> "linear",
             Ce |-> linearPlasma(Cp_prev, Cp_current, Ce_prev, ke0, dt, slope)]

\* arguments: concentrations in ug/mL, ke0 in 1/min, dt in minutes
VHACArguments ==
    [pc : {"called"},
     Cp_prev : {0, One, NaN}, Cp_current : {0, One, Num(15, 10)}, Ce_prev : {0, Num(5, 10)},
     ke0 : {0, Num(22, 100), Num(2, 1)}, dt : {0, Num(1, 10000), Num(1, 60), One}]

InitVHAC ==
    /\ call \in VHACArguments
    /\ result = NullObj
    /\ lsodaSolver = NullObj
    /\ pkCall = IdlePKCall
    /\ pkResult = NullObj
    /\ NoPage

\* the update is computed
UpdateEffectSite ==
    /\ call.pc = "called"
    /\ result' = vhac(call.Cp_prev, call.Cp_current, call.Ce_prev, call.ke0, call.dt)
    /\ call' = [call EXCEPT !.pc = "done"]
    /\ UNCHANGED <<lsodaSolver, pkVars, appVars>>

NextVHAC == UpdateEffectSite

SpecVHAC == InitVHAC /\ [][NextVHAC]_vars

\* C17: for every Cp0, Cp1, Ce0, ke0 and dt the update takes exactly one rule: the
\* steady-state rule iff |Cp1 - Cp0| < 1e-6; the Taylor rule iff that is false and
\* |ke0 * dt| < 0.001; the general rule for linear plasma iff both are false; and
\* the rule and the value are those the five arguments determine.
C17_OneRuleByPriority ==
    call.pc = "done" =>
        LET steady == FLt(FAbs(FAdd(call.Cp_current, FNeg(call.Cp_prev))), NegligibleChange)
            small == FLt(FAbs(FMul(call.ke0, call.dt)), SmallStep)
            slope == FDiv(FAdd(call.Cp_current, FNeg(call.Cp_prev)), call.dt)
        IN /\ result.rule \in {"steady", "taylor", "linear"}
           /\ result.rule = "steady" <=> steady
           /\ result.rule = "taylor" <=> (~steady /\ small)
           /\ result.rule = "linear" <=> (~steady /\ ~small)
           /\ result.rule = "steady" =>
                 result.Ce = steadyState(call.Cp_current, call.Ce_prev, call.ke0, call.dt)
           /\ result.rule = "taylor" =>
                 result.Ce = taylor(call.Cp_prev, call.Ce_prev, call.ke0, call.dt, slope)
           /\ result.rule = "linear" =>
                 result.Ce = linearPlasma(call.Cp_prev, call.Cp_current, call.Ce_prev,
                                          call.ke0, call.dt, slope)

\* the steady-state rule was taken for a step that is also a small step
C17_Witness ==
    /\ call.pc = "done"
    /\ call.Cp_current = call.Cp_prev
    /\ call.ke0 > 0 /\ call.dt > 0
    /\ FMul(call.ke0, call.dt) < SmallStep
    /\ result.rule = "steady"
    /\ result.Ce # NaN

----------------------------------------------------------------------------
(* The Masui 2022 PK model and the body weights as the README documents     *)
(* them, for comparison with what PKCalculator.calculatePKParameters        *)
(* returns.                                                                  *)

\* IBW = 45.4 + 0.89 * (height - 152.4) + 4.5 * (1 - sex)
IBW(patient) ==
    FAdd(FAdd(Num(454, 10), FMul(Num(89, 100), FAdd(patient.height, FNeg(Num(1524, 10))))),
         FMul(Num(45, 10), FAdd(One, FNeg(sexValue(patient)))))

\* ABW = IBW + 0.4 * (TBW - IBW)
ABW(patient) ==
    FAdd(IBW(patient), FMul(Num(4, 10), FAdd(patient.weight, FNeg(IBW(patient)))))

\* V1, V2, V3 and CL of the README's model
MasuiDocumented(patient) ==
    LET ratio == FDiv(ABW(patient), Num(673, 10))
    IN [v1 |-> FMul(Num(357, 100), ratio),
        v2 |-> FMul(Num(113, 10), ratio),
        v3 |-> FMul(FAdd(Num(272, 10),
                         FMul(Num(308, 1000), FAdd(patient.age, FNeg(Num(54, 1))))),
                    ratio),
        cl |-> FMul(FAdd(FAdd(Num(103, 100), FMul(Num(146, 1000), sexValue(patient))),
                         FNeg(FMul(Num(184, 1000), asaPSValue(patient)))),
                    FPow(ratio, Num(75, 100)))]

\* two numbers agree to three decimal places
Agree(a, b) == FLe(FAbs(FAdd(a, FNeg(b))), One \div 1000)

\* C18 as stated: for a patient of positive weight and height the V1, V2, V3 and
\* CL that calculatePKParameters returns are those of the README's model, scaled
\* by the adjusted body weight ABW = IBW + 0.4 * (TBW - IBW).
C18_ScaledByAdjustedBodyWeight ==
    (PKDone /\ Gt0(pkCall.patient.weight) /\ Gt0(pkCall.patient.height)) =>
        LET documented == MasuiDocumented(pkCall.patient)
        IN \A f \in {"v1", "v2", "v3", "cl"} : Agree(pkResult.value[f], documented[f])

----------------------------------------------------------------------------
(* The integrator diagnostics of SimulationEngine (scripts/main.js)         *)

\* getIntegrationMethod()
getIntegrationMethod(e) ==
    IF e.useLSODA /\ e.integrationStats # NullObj
    THEN "LSODA (" \o e.integrationStats.method \o ")"
    ELSE IF e.useLSODA THEN "LSODA (initializing)" ELSE "Euler"

\* getIntegrationStats()
getIntegrationStats(e) ==
    IF e.integrationStats # NullObj THEN e.integrationStats
    ELSE [nsteps |-> 0, nfev |-> 0, njev |-> 0, method |-> "Euler"]

\* what getIntegrationMethod() returns for a method getIntegrationStats() names
MethodLabel(method) == IF method = "Euler" THEN "Euler" ELSE "LSODA (" \o method \o ")"

\* the method that performed the most recent tick
PerformedBy(path, solution) == IF path = "Euler" THEN "Euler" ELSE solution.stats.method

\* C19 as stated: once SimulationEngine has been started, getIntegrationMethod()
\* and getIntegrationStats().method name the same method, and after a tick both
\* name the method that performed it: Euler, or the Adams or BDF method of LSODA.
C19_DiagnosticsTruthful ==
    (page.script = "main" /\ engine.startTime # NullObj) =>
        /\ getIntegrationMethod(engine) = MethodLabel(getIntegrationStats(engine).method)
        /\ run.path \in {"Euler", "LSODA"} =>
              /\ getIntegrationStats(engine).method = PerformedBy(run.path, result)
              /\ getIntegrationMethod(engine) = MethodLabel(PerformedBy(run.path, result))

----------------------------------------------------------------------------
(* SpecPKSolver: a caller obtains a solver from createPKSolver() and calls  *)
(* solve on it once.  run holds the arguments of the call, lsodaSolver the  *)
(* solver object, call the variables of solve, result the returned object.  *)
(* The call proceeds by the steps of SpecLSODA.                              *)

\* the arguments: a decay over one tick, with each of rtol, atol and
\* maxstep given or not (0 = option not given)
PKSolverCalls ==
    { Call([Decay EXCEPT !.lambda = l], <<y>>, 0, tf,
           [NoOptions EXCEPT !.rtol = r, !.atol = a, !.maxstep = ms]) :
        l \in {0, (7 * Milli) \div 10}, y \in {VU, 12 * VU}, tf \in {Tick},
        r \in {0, Rtol1e8}, a \in {0, TolScale}, ms \in {0, 100} }

InitPKSolver ==
    /\ run \in PKSolverCalls
    /\ lsodaSolver = NullObj
    /\ call = IdleCall
    /\ result = NullObj
    /\ pkCall = IdlePKCall
    /\ pkResult = NullObj
    /\ page = NullObj
    /\ clock = 0
    /\ ui = NullObj
    /\ engine = NullObj

\* const solver = createPKSolver()
CreatePKSolver ==
    /\ lsodaSolver = NullObj
    /\ lsodaSolver' = createPKSolver
    /\ UNCHANGED <<call, result, pkVars, appVars>>

\* solver.solve(f, y0, t0, tfinal, options) is entered: lines 113-140
EnterSolve ==
    /\ lsodaSolver # NullObj
    /\ call.pc = "idle"
    /\ result = NullObj
    /\ LET s == solveInit(lsodaSolver, run.rhs, run.y0, run.t0, run.tfinal, run.options)
       IN /\ lsodaSolver' = s.o
          /\ call' = s.f
    /\ UNCHANGED <<result, pkVars, appVars>>

\* the steps of solve and of step(f) are those of SpecLSODA
NextPKSolver ==
    \/ CreatePKSolver
    \/ EnterSolve
    \/ LoopTest
    \/ Predict
    \/ Evaluate
    \/ Correct
    \/ Accept
    \/ Reject
    \/ Return

SpecPKSolver == InitPKSolver /\ [][NextPKSolver]_vars

\* C20 as stated: while solve() runs on a solver obtained from createPKSolver(),
\* rtol is 1e-8, atol is 1e-12 and maxstep is 1000, each unless the options of the
\* call give it.
C20_PKSettingsInEffect ==
    call.pc # "idle" =>
        /\ run.options.rtol = 0 => lsodaSolver.rtol = Rtol1e8
        /\ run.options.atol = 0 => lsodaSolver.atol = Atol1e12
        /\ run.options.maxstep = 0 => lsodaSolver.maxstep = PKMaxstep

----------------------------------------------------------------------------
(* Properties of the screens (Spec)                                         *)

\* C21 as stated: in every state of a page exactly one of its two screens is
\* rendered: the disclaimer screen until the agree button is clicked, the main
\* screen after it, and in test.html the first screen again after the back button.
C21_ExactlyOneScreen ==
    /\ Displayed(page, ui.screens, "disclaimer") # Displayed(page, ui.screens, "main")
    /\ (page.script = "test" /\ ui.status = "back on screen 1") =>
          Displayed(page, ui.screens, "disclaimer")

----------------------------------------------------------------------------
(* Bounds on the work of LSODA.step and LSODA.solve (SpecLSODA)             *)

\* the attempts step(f) has made so far in the current call, the running one included
Attempts == call.ncf + call.nef + 1

\* C22: step(f) makes at most 19 attempts: an attempt is made after at most 9
\* convergence failures and at most 9 error-test failures; a failed attempt is a
\* convergence failure or an error-test failure; step(f) returns failure exactly
\* on the 10th failure of one kind or with |h| < hmin; and solve has accepted at
\* most maxstep steps, fewer whenever it goes round its loop again.
C22_BoundedWork ==
    /\ InStep =>
          /\ call.ncf < MaxFailures /\ call.nef < MaxFailures
          /\ Attempts <= 2 * MaxFailures - 1
    /\ call.pc = "reject" => call.kflag \in {-1, -2}
    /\ (call.pc = "return" /\ call.stop = "step") =>
          \/ call.stepResult.reason = "Too many convergence failures"
             /\ call.ncf = MaxFailures /\ call.nef < MaxFailures
          \/ call.stepResult.reason = "Too many error test failures"
             /\ call.nef = MaxFailures /\ call.ncf < MaxFailures
          \/ call.stepResult.reason = "Step size too small"
             /\ call.ncf < MaxFailures /\ call.nef < MaxFailures
             /\ Abs(lsodaSolver.h) < lsodaSolver.hmin
    /\ call.pc # "idle" => lsodaSolver.nst <= lsodaSolver.maxstep
    /\ call.pc \in {"loop", "predict", "evaluate", "correct", "reject"} =>
          lsodaSolver.nst < lsodaSolver.maxstep
    /\ (call.pc = "return" /\ call.stop = "maxstep") =>
          lsodaSolver.nst = lsodaSolver.maxstep

\* step(f) has returned failure on its 19th attempt: the 10th error-test failure
\* after 9 convergence failures
C22_Witness ==
    /\ call.pc = "return"
    /\ call.stop = "step"
    /\ call.ncf = MaxFailures - 1
    /\ call.nef = MaxFailures
    /\ Attempts = 2 * MaxFailures

\* ---------------------------------------------------------------------------
\* C23: the phases of one step attempt

\* C23: a step attempt runs Predict, Evaluate, Correct and then Accept or Reject,
\* in this order.  Only the accepting transition advances the step counter and
\* the time, then updates the history (with the step size of the attempt), then
\* selects the next step size, then checks the method switch; a rejecting
\* transition updates no history, grows no step size and switches no method.
C23_PhaseOrder ==
    [][ /\ call.pc = "predict" => call'.pc = "evaluate"
        /\ call.pc = "evaluate" => call'.pc = "correct"
        /\ call.pc = "correct" => call'.pc \in {"accept", "reject"}
        /\ call'.pc = "accept" => call.pc = "correct" /\ call.kflag' = 0
        /\ call'.pc = "reject" => call.pc = "correct" /\ call.kflag' # 0
        /\ call.pc = "accept" =>
             LET advanced == [lsodaSolver EXCEPT !.nst = lsodaSolver.nst + 1,
                                                 !.t = lsodaSolver.t + lsodaSolver.h]
                 updated == updateNordsieck(advanced)
                 selected == selectStepSize(updated)
             IN /\ lsodaSolver' = checkMethodSwitch(selected)
                /\ lsodaSolver'.nst = lsodaSolver.nst + 1
                /\ lsodaSolver'.t = lsodaSolver.t + lsodaSolver.h
                /\ lsodaSolver'.yh[0] = lsodaSolver.y
                /\ lsodaSolver'.yh[1] =
                     [i \in 1..lsodaSolver.n |-> hTimes(lsodaSolver.h, lsodaSolver.savf[i])]
                /\ lsodaSolver'.h = selected.h
                /\ call'.pc \in {"loop", "return"}
        /\ (InStep /\ call.pc # "accept") =>
             /\ lsodaSolver'.nst = lsodaSolver.nst
             /\ lsodaSolver'.t = lsodaSolver.t
             /\ lsodaSolver'.yh = lsodaSolver.yh
             /\ lsodaSolver'.meth = lsodaSolver.meth
             /\ lsodaSolver'.nq = lsodaSolver.nq
             /\ Abs(lsodaSolver'.h) <= Abs(lsodaSolver.h)
        /\ call.pc = "reject" => call'.pc \in {"predict", "return"} ]_vars

\* an attempt being retried after a rejection, in a solve that has accepted steps
\* whose history carries a non-zero derivative and whose step size has changed
C23_Witness ==
    /\ call.pc = "predict"
    /\ call.ncf + call.nef >= 1
    /\ lsodaSolver.nst >= 1
    /\ \E i \in 1..lsodaSolver.n : lsodaSolver.yh[1][i] # 0

\* ---------------------------------------------------------------------------
\* C24: the trajectory solve returns

\* C24 as stated: during and at the end of a solve with tfinal > t0 the time stays
\* in [t0, tfinal]; the stored times start at t0, grow strictly, and are as many
\* as the accepted steps plus one, as many as the stored states; and a solve that
\* returns without a failure of step has tfinal as its last stored time.
C24_WellFormedTrajectory ==
    [][ (call'.pc # "idle" /\ call'.direction > 0) =>
          /\ call'.t_out.first <= lsodaSolver'.t
          /\ lsodaSolver'.t <= call'.tfinal
          /\ call'.t_out.len = lsodaSolver'.nst + 1
          /\ call'.y_out.len = call'.t_out.len
          /\ call'.t_out.last = lsodaSolver'.t
          /\ (call.pc # "idle" /\ call'.t_out.len # call.t_out.len) =>
                /\ call'.t_out.first = call.t_out.first
                /\ call'.t_out.len = call.t_out.len + 1
                /\ call'.t_out.last > call.t_out.last
          /\ (call'.pc = "return" /\ call'.stop # "step") =>
                call'.t_out.last = call'.tfinal ]_vars

\* ---------------------------------------------------------------------------
\* C25: the fixed-step update and the right-hand side of the adaptive solver

\* the derivatives odeSystem gives at the state before the last tick
DerivativeBefore ==
    odeSystem(0, stateVector(run.before),
              [pkParams |-> engine.pkParams, continuousDose |-> engine.continuousDose,
               patient |-> PatientOf(engine)])

\* the state before the last tick advanced by 1/60 of DerivativeBefore, unclamped
EulerAdvanced ==
    [i \in 1..4 |-> FAdd(stateVector(run.before)[i], FRat(DerivativeBefore[i], 1, 60))]

\* C25 as stated: after a tick of updateSimulationEuler each of a1, a2, a3 and ce
\* is its value before the tick plus 1/60 of the derivative odeSystem gives at the
\* state before the tick, clamped at zero.
C25_ForwardEulerOfOdeSystem ==
    run.path = "Euler" => engine.state = clampState(EulerAdvanced)

\* C25, amended: after a tick of updateSimulationEuler a1, a2 and a3 are their
\* values before the tick plus 1/60 of the derivatives odeSystem gives at the
\* state before the tick; ce is its value before the tick plus
\* 1/60 * ke0 * (a1_new / V1 - ce), where a1_new is the a1 already advanced by
\* this tick and not yet clamped; then the four values are clamped at zero.
C25_EulerWithAdvancedPlasma ==
    run.path = "Euler" =>
        LET ce == run.before.ce
            a1_new == EulerAdvanced[1]
            dce_dt == FMul(engine.pkParams.ke0,
                           FAdd(FDiv(a1_new, engine.pkParams.v1), FNeg(ce)))
        IN engine.state = clampState(<<a1_new, EulerAdvanced[2], EulerAdvanced[3],
                                       FAdd(ce, FRat(dce_dt, 1, 60))>>)

\* a tick of updateSimulationEuler on a state with drug in the central
\* compartment, after which ce is not the value the derivative at the state
\* before the tick gives
C25_Witness ==
    /\ run.path = "Euler"
    /\ run.before.a1 > 0
    /\ engine.state.a1 # run.before.a1
    /\ engine.state.ce > 0
    /\ engine.state.ce # clampState(EulerAdvanced).ce

\* ---------------------------------------------------------------------------
\* C26: the intervals EnhancedSimulationEngine integrates

\* C26 as stated: within a run of EnhancedSimulationEngine lastSolveTime never
\* decreases, and the time over which the state has been integrated since the
\* start of the run is exactly lastSolveTime.
C26_EveryIntervalOnce ==
    [][ page.script = "enhanced" =>
          /\ engine'.startTime = engine.startTime =>
                engine'.lastSolveTime >= engine.lastSolveTime
          /\ run'.integrated = engine'.lastSolveTime ]_vars

----------------------------------------------------------------------------
(* SpecSimpleSolve: one call of SimpleDeSolveODE.solve (enhanced-main.js),   *)
(* followed pass by pass of its two loops.  The outcome of rkf45Step (the     *)
(* step acceptable or not, its error below rtol / 10 or not) is any of the    *)
(* four outcomes; the solution values, the length of the solution and the    *)
(* counters of solution.stats play no part in the loops and are left out:    *)
(* of the solution the model keeps its last time.  call.passes counts the passes of the inner loop in the present       *)
(* outer iteration.                                                           *)

\* tf - t0 of the calls, in time units
SimpleSpan == 400
\* passes of one inner loop the model follows
MaxPasses == 12
\* attempts < 10
MaxAttempts == 10

\* the method field: the constructor's value, the engine's value, another name
SimpleMethods == {"rk4", "rkf45", "euler"}

SimpleSolveCalls ==
    { [pc |-> "called", method |-> mt, t0 |-> t0, tf |-> t0 + SimpleSpan, t |-> t0, h |-> 0,
       stepAccepted |-> FALSE, attempts |-> 0, passes |-> 0,
       gaveUp |-> FALSE] :
      mt \in SimpleMethods, t0 \in {0, Tick} }

InitSimpleSolve ==
    /\ call \in SimpleSolveCalls
    /\ result = NullObj
    /\ lsodaSolver = NullObj
    /\ pkCall = IdlePKCall
    /\ pkResult = NullObj
    /\ NoPage

\* solve(func, y0, tspan, params), lines 138-147: the initial step size and the
\* solution with its first point
EnterSimpleSolve ==
    /\ call.pc = "called"
    /\ call' = [call EXCEPT !.pc = "outer", !.t = call.t0,
                            !.h = Min2(TU \div 100, (call.tf - call.t0) \div 100)]
    /\ UNCHANGED <<lsodaSolver, result, pkVars, appVars>>

\* while (t < tf), lines 149-156: the test, the cut of h at tf, the two locals
OuterTest ==
    /\ call.pc = "outer"
    /\ call' = IF call.t < call.tf
               THEN [call EXCEPT !.pc = "inner",
                                 !.h = IF call.t + call.h > call.tf
                                       THEN call.tf - call.t ELSE call.h,
                                 !.stepAccepted = FALSE, !.attempts = 0, !.passes = 0]
               ELSE [call EXCEPT !.pc = "return"]
    /\ UNCHANGED <<lsodaSolver, result, pkVars, appVars>>

\* one pass of while (!stepAccepted && attempts < 10), lines 158-180.  The model
\* follows an accepted step while its step size is above the resolution.
SimpleAttempt ==
    /\ call.pc = "inner"
    /\ ~call.stepAccepted /\ call.attempts < MaxAttempts
    /\ call.passes < MaxPasses
    /\ \E acceptable \in BOOLEAN, verySmall \in BOOLEAN :
          call' = IF call.method = "rk4"
                  THEN [call EXCEPT !.passes = @ + 1, !.stepAccepted = TRUE]
                  ELSE IF call.method = "rkf45"
                  THEN IF acceptable /\ call.h # 0
                       THEN [call EXCEPT !.passes = @ + 1, !.stepAccepted = TRUE,
                                         !.h = IF verySmall THEN growStep(call.h) ELSE call.h]
                       ELSE [call EXCEPT !.passes = @ + 1, !.h = call.h \div 2,
                                         !.attempts = @ + 1]
                  ELSE [call EXCEPT !.passes = @ + 1]
    /\ UNCHANGED <<lsodaSolver, result, pkVars, appVars>>

\* the inner loop has ended, lines 182-190: the step is stored, or the outer loop
\* is left
EndAttempts ==
    /\ call.pc = "inner"
    /\ call.stepAccepted \/ call.attempts >= MaxAttempts
    /\ call' = IF call.stepAccepted
               THEN [call EXCEPT !.pc = "outer", !.t = call.t + call.h]
               ELSE [call EXCEPT !.pc = "return", !.gaveUp = TRUE]
    /\ UNCHANGED <<lsodaSolver, result, pkVars, appVars>>

\* return solution, line 193
ReturnSimpleSolve ==
    /\ call.pc = "return"
    /\ result' = [t |-> call.t]
    /\ call' = [call EXCEPT !.pc = "done"]
    /\ UNCHANGED <<lsodaSolver, pkVars, appVars>>

NextSimpleSolve ==
    \/ EnterSimpleSolve
    \/ OuterTest
    \/ SimpleAttempt
    \/ EndAttempts
    \/ ReturnSimpleSolve

SpecSimpleSolve == InitSimpleSolve /\ [][NextSimpleSolve]_vars

\* C27 as stated: in a call of SimpleDeSolveODE.solve with tf > t0, whatever the
\* method field holds and whatever the outcomes of the steps are, every pass of
\* the inner loop accepts the step or counts a rejected attempt, so an inner loop
\* has at most 10 passes; an inner loop that ends has accepted a step, which then
\* advances t, or has counted 10 rejected attempts, after which the call returns;
\* and the call returns only with t >= tf or after giving up.
C27_SolveTerminates ==
    [][ /\ (call.pc = "inner" /\ call'.pc = "inner") =>
              \/ call'.stepAccepted
              \/ call'.attempts = call.attempts + 1
        /\ call'.pc = "inner" => call'.passes <= MaxAttempts
        /\ (call.pc = "inner" /\ call'.pc = "outer") =>
              (call.stepAccepted /\ call'.t > call.t)
        /\ (call.pc = "inner" /\ call'.pc = "return") =>
              (~call.stepAccepted /\ call.attempts = MaxAttempts)
        /\ (call.pc = "outer" /\ call'.pc = "return") => call.t >= call.tf ]_vars

\* ---------------------------------------------------------------------------
\* C28: a step of LSODA and the accepted solution

\* C28: from the entry of step(f) to the acceptance of an attempt, and to the
\* return of a step that fails, the time t, the step counter nst and the last
\* accepted solution yh[0] are what they were when step was entered: the time and
\* the solution last stored in the trajectory.  They and the trajectory change
\* only in the transition that accepts a step.
C28_StepAtomic ==
    [][ /\ (InStep /\ call.pc # "accept") =>
              /\ lsodaSolver'.t = lsodaSolver.t
              /\ lsodaSolver'.nst = lsodaSolver.nst
              /\ lsodaSolver'.yh[0] = lsodaSolver.yh[0]
              /\ call'.t_out = call.t_out
              /\ call'.y_out = call.y_out
        /\ (call'.pc \in {"predict", "evaluate", "correct", "accept", "reject"}
              \/ (call'.pc = "return" /\ call'.stop = "step")) =>
              /\ lsodaSolver'.t = call'.told
              /\ lsodaSolver'.t = call'.t_out.last
              /\ lsodaSolver'.nst + 1 = call'.t_out.len
              /\ lsodaSolver'.yh[0] = call'.y_out.last ]_vars

\* a call of step that has failed after steps were accepted, with a working
\* solution that is not the accepted one
C28_Witness ==
    /\ call.pc = "return"
    /\ call.stop = "step"
    /\ lsodaSolver.nst >= 1
    /\ lsodaSolver.y # lsodaSolver.yh[0]

----------------------------------------------------------------------------
(* SpecEngine: one SimulationEngine or EnhancedSimulationEngine whose        *)
(* methods start, stop and takeSnapshot are called in any order, with the    *)
(* interval timers of the window.  ui holds the caller's Patient object and  *)
(* the window: the ids of the intervals that are set, the id this.timer      *)
(* holds (0 for none) and the id the next setInterval returns.               *)

\* calls of start() that set a timer, and snapshots of one run, in a behaviour
MaxStarts == 2
MaxLog == 2

\* the doses the caller gives start(): a bolus (mg/kg), an infusion (mg/kg/hr)
EngineDoses == {<<parseFloat(120), 0>>, <<0, parseFloat(10)>>}

\* the page of main.js as shipped and the page of enhanced-main.js with desolve.js
EnginePages ==
    {q \in Pages : IF q.script = "main" THEN ~q.useLSODA ELSE q.useExternalDeSolve}

InitEngine ==
    /\ page \in EnginePages
    /\ clock = 0
    /\ ui = [patient |-> DefaultPatient, intervals |-> {}, handle |-> 0, nextId |-> 1]
    /\ engine = NewEngine(page.useLSODA)
    /\ lsodaSolver = NullObj
    /\ result = NullObj
    /\ run = NoRun
    /\ call = IdleCall
    /\ pkCall = IdlePKCall
    /\ pkResult = NullObj

\* start(patient, bolusDose, continuousDose): setInterval is reached where the
\* method does not return at its first line
EngineStart ==
    /\ engine.isRunning \/ ui.nextId <= MaxStarts
    /\ \E d \in EngineDoses :
          engine' = IF page.script = "main"
                    THEN startMain(engine, ui.patient, d[1], d[2], clock)
                    ELSE startEnhanced(engine, ui.patient, page.env, d[1], d[2], clock)
    /\ lsodaSolver' = IF page.script = "main" /\ ~engine.isRunning /\ engine.useLSODA
                      THEN createPKSolver ELSE lsodaSolver
    /\ ui' = IF engine.isRunning THEN ui
             ELSE [ui EXCEPT !.intervals = @ \cup {ui.nextId}, !.handle = ui.nextId,
                             !.nextId = @ + 1]
    /\ UNCHANGED <<call, result, pkVars, page, clock, run>>

\* stop(): clearInterval(this.timer) where this.timer is set
EngineStop ==
    /\ engine' = stop(engine)
    /\ ui' = IF engine.timer # NullObj /\ engine'.timer = NullObj
             THEN [ui EXCEPT !.intervals = @ \ {ui.handle}, !.handle = 0]
             ELSE ui
    /\ UNCHANGED <<lsodaVars, pkVars, page, clock, run>>

\* takeSnapshot()
EngineTakeSnapshot ==
    /\ Len(engine.snapshots) < MaxLog
    /\ engine' = takeSnapshot(engine, clock)
    /\ UNCHANGED <<lsodaVars, pkVars, page, clock, ui, run>>

\* an interval of the window fires: the callback start() gave it calls
\* updateSimulation() of the engine
EngineTimer ==
    /\ ui.intervals # {}
    /\ clock < MaxTicks * TimerPeriod
    /\ clock' = clock + TimerPeriod
    /\ LET u == IF page.script = "main"
                THEN updateSimulationMain(engine, lsodaSolver, ui.patient, clock + TimerPeriod)
                ELSE updateSimulationEnhanced(engine, page.useExternalDeSolve, ui.patient,
                                              clock + TimerPeriod)
       IN /\ engine' = u.engine
          /\ lsodaSolver' = IF page.script = "main" THEN u.solver ELSE lsodaSolver
          /\ result' = u.result
    /\ UNCHANGED <<call, pkVars, page, ui, run>>

NextEngine ==
    \/ EngineStart
    \/ EngineStop
    \/ EngineTakeSnapshot
    \/ EngineTimer

SpecEngine == InitEngine /\ [][NextEngine]_vars

\* C29: a call of takeSnapshot() on a running engine puts one record, taken now,
\* in front of the snapshots there were, and a call on an engine that is not
\* running changes nothing; the timestamps of the list never grow from front to
\* back; a call of start() on a running engine changes nothing, a call on an
\* engine that is not running leaves the list empty; stop() and the ticks leave
\* the list as it is.
C29_SnapshotDiscipline ==
    [][ /\ EngineTakeSnapshot =>
              IF engine.isRunning
              THEN /\ Len(engine'.snapshots) = Len(engine.snapshots) + 1
                   /\ Tail(engine'.snapshots) = engine.snapshots
                   /\ Head(engine'.snapshots).timestamp = clock
                   /\ Head(engine'.snapshots).elapsedTime = engine.elapsedTime
              ELSE engine' = engine
        /\ EngineStart =>
              IF engine.isRunning
              THEN engine' = engine /\ lsodaSolver' = lsodaSolver /\ ui' = ui
              ELSE engine'.snapshots = <<>>
        /\ (EngineStop \/ EngineTimer) => engine'.snapshots = engine.snapshots
        /\ \A i \in 1..Len(engine'.snapshots), j \in 1..Len(engine'.snapshots) :
              i < j => engine'.snapshots[i].timestamp >= engine'.snapshots[j].timestamp ]_vars

\* two snapshots of one run taken a tick apart, the run stopped afterwards
C29_Witness ==
    /\ Len(engine.snapshots) = 2
    /\ engine.snapshots[1].timestamp > engine.snapshots[2].timestamp
    /\ engine.snapshots[1].elapsedTime > engine.snapshots[2].elapsedTime
    /\ ~engine.isRunning

\* C30: an engine is running exactly when its timer field is set; the window has
\* at most one interval of the engine, the one the timer field holds, and none
\* when the engine is not running.
C30_OneTimerWhileRunning ==
    /\ engine.isRunning <=> engine.timer # NullObj
    /\ Cardinality(ui.intervals) <= 1
    /\ engine.isRunning => ui.intervals = {ui.handle}
    /\ ~engine.isRunning => (ui.intervals = {} /\ ui.handle = 0)

\* an engine stopped after its second start
C30_Witness ==
    /\ ui.nextId = 3
    /\ ~engine.isRunning
    /\ engine.timer = NullObj
    /\ engine.startTime # NullObj
    /\ engine.startTime.time > 0

====
